---- MODULE Spec2Model ----
\* A model of RelativeDelta (relativedelta-npm): construction from option
\* fields or from two instants, normalization (fix), applyToDate, the unit
\* conversions and normalized().
\*
\* Numbers.  A JavaScript number that the code may receive with a fractional
\* part (every option value, every relative and absolute field of a delta) is
\* held as an integer count of 1/Q: the value v stands for v/Q, so 1.5 days is
\* 3*Q \div 2 and 31 is 31*Q.  Quantities the code keeps integral by
\* construction (the fields of a Date, weekday codes, Weekday.n after
\* Math.trunc) are plain integers.  toSeconds, toDays and normalized()
\* compute on IEEE 754 doubles, and what toSeconds returns is held as a double.
\*
\* Dates.  A Date is [dn, tod]: dn the day number (days since 1970-01-01 in
\* the proleptic Gregorian calendar) and tod the millisecond of that day.
\* Local time is taken to have a fixed offset (no daylight-saving steps), so
\* the local and the UTC accessors of Date agree.
EXTENDS Integers, Sequences, FiniteSets, TLC

----------------------------------------------------------------------------
\* Fixed-point helpers (ECMAScript number operations on values held in 1/Q)

Q == 4

Num(k) == k * Q

IsInteger(v) == v % Q = 0

Abs(v) == IF v < 0 THEN -v ELSE v

\* Math.trunc / ToIntegerOrInfinity: the integer part, toward zero (plain integer)
Trunc(v) == IF v >= 0 THEN v \div Q ELSE -((-v) \div Q)

\* Math.floor (plain integer)
Floor(v) == v \div Q

\* Math.round: nearest integer, halves toward +infinity (plain integer)
Round(v) == (2 * v + Q) \div (2 * Q)

\* The % operator of ECMAScript: the remainder takes the sign of the dividend
JsRem(a, b) == IF a >= 0 THEN a % b ELSE -((-a) % b)

\* Math.min on plain integers
Min(a, b) == IF a <= b THEN a ELSE b

----------------------------------------------------------------------------
\* The calendar primitive (ECMAScript Date), as far as the code uses it

msPerDay == 86400000

msPerHour == 3600000

msPerMinute == 60000

msPerSecond == 1000

\* isLeapYear: the 4/100/400 rule
isLeapYear(year) == (year % 4 = 0 /\ year % 100 # 0) \/ year % 400 = 0

\* Day number of year-month-day, month 1..12 (days from civil).  The year is
\* counted from March (yy), split into its 400-year era and the year of the
\* era (yoe); doy is the day of the year counted from March 1.
DaysFromYoe(era, yoe, doy) ==
    era * 146097 + yoe * 365 + yoe \div 4 - yoe \div 100 + doy - 719468

DaysFromMarchYear(yy, mp, d) ==
    DaysFromYoe(yy \div 400, yy % 400, (153 * mp + 2) \div 5 + d - 1)

DaysFromCivil(y, m, d) ==
    DaysFromMarchYear(IF m <= 2 THEN y - 1 ELSE y, IF m > 2 THEN m - 3 ELSE m + 9, d)

\* Year, month (0..11) and day of month of a day number (civil from days):
\* doe is the day of the 400-year era, yoe the year of the era, doy the day
\* of the year counted from March 1, mp the month counted from March
CivilOfMp(y0, doy, mp) ==
    [year  |-> y0 + (IF mp >= 10 THEN 1 ELSE 0),
     month |-> IF mp < 10 THEN mp + 2 ELSE mp - 10,
     date  |-> doy - (153 * mp + 2) \div 5 + 1]

CivilOfDoy(y0, doy) == CivilOfMp(y0, doy, (5 * doy + 2) \div 153)

CivilOfYoe(era, doe, yoe) ==
    CivilOfDoy(yoe + era * 400, doe - (365 * yoe + yoe \div 4 - yoe \div 100))

CivilOfEra(era, doe) ==
    CivilOfYoe(era, doe, (doe - doe \div 1460 + doe \div 36524 - doe \div 146096) \div 365)

CivilFromDays(dn) == CivilOfEra((dn + 719468) \div 146097, (dn + 719468) % 146097)

\* MakeDay(year, month, date) of ECMAScript: month (0-based) and date may be
\* out of range and roll over into neighbouring months and years
MakeDay(year, month, date) ==
    DaysFromCivil(year + month \div 12, (month % 12) + 1, 1) + date - 1

\* MakeDate(day, time) of ECMAScript: time may be negative or exceed one day
MakeDate(day, time) ==
    [dn |-> day + time \div msPerDay, tod |-> time % msPerDay]

\* MakeTime(hour, min, sec, ms) of ECMAScript
MakeTime(hour, min, sec, ms) ==
    hour * msPerHour + min * msPerMinute + sec * msPerSecond + ms

getFullYear(t) == CivilFromDays(t.dn).year

getMonth(t) == CivilFromDays(t.dn).month

getDate(t) == CivilFromDays(t.dn).date

getHours(t) == t.tod \div msPerHour

getMinutes(t) == (t.tod % msPerHour) \div msPerMinute

getSeconds(t) == (t.tod % msPerMinute) \div msPerSecond

getMilliseconds(t) == t.tod % msPerSecond

\* getDay: 0 = Sunday .. 6 = Saturday (1970-01-01 was a Thursday)
getDay(t) == (t.dn + 4) % 7

\* new Date(year, month, day, ...) and Date.UTC(year, month, day): a year in
\* 0..99 means 1900 + year
FullYearOf(year) == IF year >= 0 /\ year <= 99 THEN 1900 + year ELSE year

NewDate(year, month, day, hour, min, sec, ms) ==
    MakeDate(MakeDay(FullYearOf(year), month, day), MakeTime(hour, min, sec, ms))

\* Date.UTC(year, month, day) / msPerDay: the day number of the calendar day
DateUTC(year, month, day) == MakeDay(FullYearOf(year), month, day)

\* The setters take ECMAScript numbers (in 1/Q) and truncate them
setFullYear(t, year) ==
    MakeDate(MakeDay(Trunc(year), getMonth(t), getDate(t)), t.tod)

setFullYear3(t, year, month, date) ==
    MakeDate(MakeDay(Trunc(year), Trunc(month), Trunc(date)), t.tod)

setMonth(t, month) ==
    MakeDate(MakeDay(getFullYear(t), Trunc(month), getDate(t)), t.tod)

setDate(t, date) ==
    MakeDate(MakeDay(getFullYear(t), getMonth(t), Trunc(date)), t.tod)

setHours(t, hour) ==
    MakeDate(t.dn, MakeTime(Trunc(hour), getMinutes(t), getSeconds(t), getMilliseconds(t)))

setHours4(t, hour, min, sec, ms) ==
    MakeDate(t.dn, MakeTime(Trunc(hour), Trunc(min), Trunc(sec), Trunc(ms)))

setMinutes(t, min) ==
    MakeDate(t.dn, MakeTime(getHours(t), Trunc(min), getSeconds(t), getMilliseconds(t)))

setSeconds(t, sec) ==
    MakeDate(t.dn, MakeTime(getHours(t), getMinutes(t), Trunc(sec), getMilliseconds(t)))

setMilliseconds(t, ms) ==
    MakeDate(t.dn, MakeTime(getHours(t), getMinutes(t), getSeconds(t), Trunc(ms)))

\* new Date(year, month + 1, 0).getDate(): the number of days in a month
\* (year a plain integer, month in 1/Q, as the code passes them)
DaysInMonth(year, month) ==
    getDate(NewDate(year, Trunc(month + Num(1)), 0, 0, 0, 0, 0))

----------------------------------------------------------------------------
\* Weekday (WeekdayTypes.ts)

weekDayMap == [MO |-> 0, TU |-> 1, WE |-> 2, TH |-> 3, FR |-> 4, SA |-> 5, SU |-> 6]

ErrWeekdayString == "Invalid weekday string"

ErrWeekdayNumber == "Invalid weekday number"

\* the names weekDayMap, an object literal, inherits from Object.prototype:
\* `weekDay in weekDayMap` is true for them as for the seven codes
ObjectPrototypeNames ==
    { "constructor", "toString", "toLocaleString", "valueOf", "hasOwnProperty",
      "isPrototypeOf", "propertyIsEnumerable", "__proto__", "__defineGetter__",
      "__defineSetter__", "__lookupGetter__", "__lookupSetter__" }

\* weekDayMap[name] for an inherited name: a function or an object, no number.
\* It stands for all of them, outside the weekdays 0..6
InheritedValue == -1

\* new Weekday(weekDay, n): day is [str |-> s] or [num |-> v] (v in 1/Q), n in 1/Q
Weekday(day, n) ==
    IF "str" \in DOMAIN day
    THEN IF day.str \in DOMAIN weekDayMap
         THEN [err |-> "", weekDay |-> weekDayMap[day.str], n |-> Trunc(n)]
         ELSE IF day.str \in ObjectPrototypeNames
         THEN [err |-> "", weekDay |-> InheritedValue, n |-> Trunc(n)]
         ELSE [err |-> ErrWeekdayString, weekDay |-> 0, n |-> 0]
    ELSE IF ~IsInteger(day.num) \/ day.num < Num(0) \/ day.num > Num(6)
         THEN [err |-> ErrWeekdayNumber, weekDay |-> 0, n |-> 0]
         ELSE [err |-> "", weekDay |-> Trunc(day.num), n |-> Trunc(n)]

----------------------------------------------------------------------------
\* RelativeDelta: normalization

\* fixUnit with the overflow test `absValue <= max`: a field equal to its base
\* is left alone
fixUnit_InclusiveBound(value, carryTo, max) ==
    IF value = 0 THEN <<0, carryTo>>
    ELSE LET absValue == Abs(value)
         IN  IF absValue <= Num(max) THEN <<value, carryTo>>
             ELSE LET sign == IF value < 0 THEN -1 ELSE 1
                      div  == absValue \div Num(max)
                  IN  <<JsRem(absValue, Num(max)) * sign, carryTo + Num(div) * sign>>

\* fixUnit that adds the carry without the sign of the value
fixUnit_UnsignedCarry(value, carryTo, max) ==
    IF value = 0 THEN <<0, carryTo>>
    ELSE LET absValue == Abs(value)
         IN  IF absValue < Num(max) THEN <<value, carryTo>>
             ELSE LET sign == IF value < 0 THEN -1 ELSE 1
                      div  == absValue \div Num(max)
                  IN  <<JsRem(absValue, Num(max)) * sign, carryTo + Num(div)>>

\* fixUnit(value, carryTo, max): the pair <<value, carryTo>> after the carry
fixUnit(value, carryTo, max) ==
    IF value = 0 THEN <<0, carryTo>>
    ELSE LET absValue == Abs(value)
         IN  IF absValue < Num(max) THEN <<value, carryTo>>
             ELSE LET sign == IF value < 0 THEN -1 ELSE 1
                      div  == absValue \div Num(max)
                  IN  <<JsRem(absValue, Num(max)) * sign, carryTo + Num(div) * sign>>

\* fix() that bounds the hours and loses their carry into the days
fix_NoDayCarry(d) ==
    LET ms == fixUnit(d.milliseconds, d.seconds, 1000)
        s  == fixUnit(ms[2], d.minutes, 60)
        mi == fixUnit(s[2], d.hours, 60)
        h  == fixUnit(mi[2], d.days, 24)
        mo == fixUnit(d.months, d.years, 12)
    IN  [d EXCEPT !.milliseconds = ms[1], !.seconds = s[1], !.minutes = mi[1],
                  !.hours = h[1], !.months = mo[1], !.years = mo[2]]

\* fix(): one pass, lowest unit first; months carry into years
fix(d) ==
    LET ms == fixUnit(d.milliseconds, d.seconds, 1000)
        s  == fixUnit(ms[2], d.minutes, 60)
        mi == fixUnit(s[2], d.hours, 60)
        h  == fixUnit(mi[2], d.days, 24)
        mo == fixUnit(d.months, d.years, 12)
    IN  [d EXCEPT !.milliseconds = ms[1], !.seconds = s[1], !.minutes = mi[1],
                  !.hours = h[1], !.days = h[2], !.months = mo[1], !.years = mo[2]]

----------------------------------------------------------------------------
\* RelativeDelta: validation

ErrBothDates == "Both date1 and date2 must be provided for date comparison."

ErrFloatRelative == "Floats are not supported for parameters 'years' and 'months'"

ErrFloatAbsolute == "Floats are not supported for parameters 'year', 'month', 'day', 'hour', 'minute', 'second' and 'millisecond'"

ErrRange == "parameter is out of range"

ErrYearDay == "Invalid yearDay value"

AbsKeys == {"year", "month", "day", "hour", "minute", "second", "millisecond"}

\* the table with the hour, minute, second and millisecond starting at 0
absoluteValues_ZeroBased ==
    << [name |-> "year",        min |-> 1, max |-> 9999],
       [name |-> "month",       min |-> 1, max |-> 12],
       [name |-> "day",         min |-> 1, max |-> 31],
       [name |-> "hour",        min |-> 0, max |-> 23],
       [name |-> "minute",      min |-> 0, max |-> 59],
       [name |-> "second",      min |-> 0, max |-> 59],
       [name |-> "millisecond", min |-> 0, max |-> 999] >>

\* the absoluteValues table of validateInput, in its order
absoluteValues ==
    << [name |-> "year",        min |-> 1, max |-> 9999],
       [name |-> "month",       min |-> 1, max |-> 12],
       [name |-> "day",         min |-> 1, max |-> 31],
       [name |-> "hour",        min |-> 1, max |-> 23],
       [name |-> "minute",      min |-> 1, max |-> 59],
       [name |-> "second",      min |-> 1, max |-> 59],
       [name |-> "millisecond", min |-> 1, max |-> 999] >>

\* the error one entry of the table raises, "" when it passes
validateAbsolute(d, e) ==
    IF e.name \notin DOMAIN d.abs THEN ""
    ELSE LET value == d.abs[e.name]
             skipRangeCheck == e.name = "day" /\ d.dayModifiedInternally
         IN  IF ~IsInteger(value) THEN ErrFloatAbsolute
             ELSE IF ~skipRangeCheck /\ (value < Num(e.min) \/ value > Num(e.max))
                  THEN ErrRange
                  ELSE ""

RECURSIVE validateFrom(_, _)
validateFrom(d, i) ==
    IF i > Len(absoluteValues) THEN ""
    ELSE LET e == validateAbsolute(d, absoluteValues[i])
         IN  IF e # "" THEN e ELSE validateFrom(d, i + 1)

\* validateInput() with the absolute fields checked before years and months
validateInput_AbsoluteFirst(d) ==
    IF validateFrom(d, 1) # "" THEN validateFrom(d, 1)
    ELSE IF ~IsInteger(d.years) \/ ~IsInteger(d.months) THEN ErrFloatRelative
    ELSE ""

\* validateInput(): the error thrown, "" when the fields are valid
validateInput(d) ==
    IF ~IsInteger(d.years) \/ ~IsInteger(d.months) THEN ErrFloatRelative
    ELSE validateFrom(d, 1)

----------------------------------------------------------------------------
\* RelativeDelta: construction

\* options.k ?? dflt
Opt(o, k, dflt) == IF k \in DOMAIN o THEN o[k] ELSE dflt

\* a Weekday value held by a delta: <<>> is null, <<w>> a Weekday
NoWeekday == <<>>

Failed(e) == [err |-> e]

Built(d) == [err |-> "", delta |-> d]

\* date d1 <= d2 (comparison of the two time values)
DateLeq(d1, d2) == d1.dn < d2.dn \/ (d1.dn = d2.dn /\ d1.tod <= d2.tod)

\* countLeapYears(startYear, endYear)
countLeapYears(startYear, endYear) ==
    LET leapsBeforeEnd   == endYear \div 4 - endYear \div 100 + endYear \div 400
        leapsBeforeStart == (startYear - 1) \div 4 - (startYear - 1) \div 100
                            + (startYear - 1) \div 400
    IN  leapsBeforeEnd - leapsBeforeStart

\* countLeapDaysBetween(start, end)
countLeapDaysBetween(start, end) ==
    LET startYear == getFullYear(start)
        endYear   == getFullYear(end)
        adjStart  == IF isLeapYear(startYear)
                        /\ (getMonth(start) > 1
                            \/ (getMonth(start) = 1 /\ getDate(start) > 29))
                     THEN -1 ELSE 0
        adjEnd    == IF isLeapYear(endYear)
                        /\ (getMonth(end) < 1
                            \/ (getMonth(end) = 1 /\ getDate(end) < 29))
                     THEN -1 ELSE 0
    IN  countLeapYears(startYear, endYear) + adjStart + adjEnd

\* tempDate of the diff path (day numbers): the earlier calendar day advanced
\* by years (setUTCFullYear) and months (setUTCMonth), pulled back to the last
\* day of the previous month when the day of month changed (setUTCDate(0))
setUTCFullYear(dn, year) == MakeDay(year, CivilFromDays(dn).month, CivilFromDays(dn).date)

setUTCMonth(dn, month) == MakeDay(CivilFromDays(dn).year, month, CivilFromDays(dn).date)

setUTCDate(dn, date) == MakeDay(CivilFromDays(dn).year, CivilFromDays(dn).month, date)

DiffClamp(startOfEarlier, tempDate) ==
    IF CivilFromDays(tempDate).date # CivilFromDays(startOfEarlier).date
    THEN setUTCDate(tempDate, 0)
    ELSE tempDate

DiffAddMonths(tempDate, months) ==
    setUTCMonth(tempDate, CivilFromDays(tempDate).month + months)

DiffAddYears(tempDate, years) ==
    setUTCFullYear(tempDate, CivilFromDays(tempDate).year + years)

DiffTempDate(startOfEarlier, years, months) ==
    CHOOSE r \in
      { DiffClamp(startOfEarlier, t2) : t2 \in
      { DiffAddMonths(t1, months) : t1 \in
      { DiffAddYears(startOfEarlier, years) } } } : TRUE

applySign(value, sign) == IF value = 0 THEN 0 ELSE value * sign

\* monthDiff after `if (laterDate < earlierDate) monthDiff--`, before the
\* borrow from the years
DiffMonthDiff(e, l) == (l.month - e.month) - (IF l.date < e.date THEN 1 ELSE 0)

\* years and months of the diff, from the calendar fields of the two dates
DiffYears(e, l) == (l.year - e.year) - (IF DiffMonthDiff(e, l) < 0 THEN 1 ELSE 0)

\* the months without the borrow from the years
DiffMonths_NoBorrow(e, l) == DiffMonthDiff(e, l)

DiffMonths(e, l) ==
    IF DiffMonthDiff(e, l) < 0 THEN DiffMonthDiff(e, l) + 12 ELSE DiffMonthDiff(e, l)

\* days of the diff: from tempDate to the later calendar day
DiffDays(e, l) ==
    DateUTC(l.year, l.month, l.date)
    - DiffTempDate(DateUTC(e.year, e.month, e.date), DiffYears(e, l), DiffMonths(e, l))

\* the fields of the diff, earlier and later in order
DiffFields(earlier, later, sign) ==
    [years        |-> Num(applySign(DiffYears(CivilFromDays(earlier.dn), CivilFromDays(later.dn)), sign)),
     months       |-> Num(applySign(DiffMonths(CivilFromDays(earlier.dn), CivilFromDays(later.dn)), sign)),
     days         |-> Num(applySign(DiffDays(CivilFromDays(earlier.dn), CivilFromDays(later.dn)), sign)),
     leapDays     |-> Num(applySign(countLeapDaysBetween(earlier, later), sign)),
     hours        |-> Num(applySign(getHours(later) - getHours(earlier), sign)),
     minutes      |-> Num(applySign(getMinutes(later) - getMinutes(earlier), sign)),
     seconds      |-> Num(applySign(getSeconds(later) - getSeconds(earlier), sign)),
     milliseconds |-> Num(applySign(getMilliseconds(later) - getMilliseconds(earlier), sign)),
     abs          |-> [k \in {} |-> 0],
     weekDay      |-> NoWeekday,
     dayModifiedInternally |-> FALSE]

\* the constructor, date1 and date2 given
DiffDelta(date1, date2) ==
    IF DateLeq(date1, date2)
    THEN DiffFields(date1, date2, -1)
    ELSE DiffFields(date2, date1, 1)

\* the weekDay option: a Weekday instance, a [code, n] pair, a string or a number
WeekdayOption(w) ==
    IF w.kind = "Weekday" THEN [err |-> "", weekDay |-> w.weekDay, n |-> w.n]
    ELSE IF w.kind = "pair" THEN Weekday(w.day, w.n)
    ELSE Weekday(w.day, Num(1))

\* cumulative days at the end of each month of a 366-day year
yearDayIndex == <<31, 59, 90, 120, 151, 181, 212, 243, 273, 304, 334, 366>>

\* yearDayIndex.findIndex((days) => yearDay <= days), 0-based, -1 when none
FindMonthIndex(yearDay) ==
    IF \E i \in 1..Len(yearDayIndex) : yearDay <= Num(yearDayIndex[i])
    THEN (CHOOSE i \in 1..Len(yearDayIndex) :
              /\ yearDay <= Num(yearDayIndex[i])
              /\ \A j \in 1..(i - 1) : ~(yearDay <= Num(yearDayIndex[j]))) - 1
    ELSE -1

\* the constructor, no dates given: the fields before validateInput and fix
FieldDelta(o) ==
    [years        |-> Opt(o, "years", 0),
     months       |-> Opt(o, "months", 0),
     days         |-> Opt(o, "days", 0) + Opt(o, "weeks", 0) * 7,
     hours        |-> Opt(o, "hours", 0),
     minutes      |-> Opt(o, "minutes", 0),
     seconds      |-> Opt(o, "seconds", 0),
     milliseconds |-> Opt(o, "milliseconds", 0),
     leapDays     |-> Opt(o, "leapDays", 0),
     abs          |-> [k \in (DOMAIN o \cap AbsKeys) |-> o[k]],
     weekDay      |-> NoWeekday,
     dayModifiedInternally |-> FALSE]

\* the yearDay / nonLeapYearDay block with leapDays = -1 for nonLeapYearDay too
ResolveYearDay_AlwaysLeapDays(o, d) ==
    LET useNonLeap == Opt(o, "nonLeapYearDay", 0) # 0
        useYearDay == ~useNonLeap /\ Opt(o, "yearDay", 0) # 0
        yearDay    == IF useNonLeap THEN o.nonLeapYearDay ELSE Opt(o, "yearDay", 0)
        d1         == IF yearDay > Num(59)
                      THEN [d EXCEPT !.leapDays = Num(-1)] ELSE d
        monthIndex == FindMonthIndex(yearDay)
    IN  IF ~(useNonLeap \/ useYearDay) THEN Built(d)
        ELSE IF monthIndex = -1 \/ yearDay < Num(1) THEN Failed(ErrYearDay)
        ELSE LET day == IF monthIndex = 0 THEN yearDay
                        ELSE yearDay - Num(yearDayIndex[monthIndex])
                 a1  == [k \in (DOMAIN d1.abs \cup {"month", "day"}) |->
                            IF k = "month" THEN Num(monthIndex + 1)
                            ELSE IF k = "day" THEN day
                            ELSE d1.abs[k]]
             IN  Built([d1 EXCEPT !.abs = a1, !.dayModifiedInternally = TRUE])

\* the yearDay / nonLeapYearDay block: [err, delta]
ResolveYearDay(o, d) ==
    LET useNonLeap == Opt(o, "nonLeapYearDay", 0) # 0
        useYearDay == ~useNonLeap /\ Opt(o, "yearDay", 0) # 0
        yearDay    == IF useNonLeap THEN o.nonLeapYearDay ELSE Opt(o, "yearDay", 0)
        d1         == IF useYearDay /\ yearDay > Num(59)
                      THEN [d EXCEPT !.leapDays = Num(-1)] ELSE d
        monthIndex == FindMonthIndex(yearDay)
    IN  IF ~(useNonLeap \/ useYearDay) THEN Built(d)
        ELSE IF monthIndex = -1 \/ yearDay < Num(1) THEN Failed(ErrYearDay)
        ELSE LET day == IF monthIndex = 0 THEN yearDay
                        ELSE yearDay - Num(yearDayIndex[monthIndex])
                 a1  == [k \in (DOMAIN d1.abs \cup {"month", "day"}) |->
                            IF k = "month" THEN Num(monthIndex + 1)
                            ELSE IF k = "day" THEN day
                            ELSE d1.abs[k]]
             IN  Built([d1 EXCEPT !.abs = a1, !.dayModifiedInternally = TRUE])

\* the else branch of the constructor: the fields, the weekday, the year day,
\* validateInput() and fix()
FromFields(o) ==
    LET wd == IF "weekDay" \in DOMAIN o THEN WeekdayOption(o.weekDay)
              ELSE [err |-> "", weekDay |-> 0, n |-> 0]
    IN  IF wd.err # "" THEN Failed(wd.err)
        ELSE LET d0 == IF "weekDay" \in DOMAIN o
                       THEN [FieldDelta(o) EXCEPT
                                !.weekDay = <<[weekDay |-> wd.weekDay, n |-> wd.n]>>]
                       ELSE FieldDelta(o)
                 yd == ResolveYearDay(o, d0)
             IN  IF yd.err # "" THEN yd
                 ELSE IF validateInput(yd.delta) # ""
                      THEN Failed(validateInput(yd.delta))
                      ELSE Built(fix(yd.delta))

\* a constructor that only misses date2 when date1 is given
RelativeDelta_Date1Only(o) ==
    IF "date1" \in DOMAIN o /\ "date2" \notin DOMAIN o THEN Failed(ErrBothDates)
    ELSE IF "date1" \in DOMAIN o THEN Built(DiffDelta(o.date1, o.date2))
    ELSE FromFields(o)

\* a constructor that takes the else branch when options come with the dates
RelativeDelta_FieldsChecked(o) ==
    IF ("date1" \in DOMAIN o) # ("date2" \in DOMAIN o) THEN Failed(ErrBothDates)
    ELSE IF DOMAIN o = {"date1", "date2"} THEN Built(DiffDelta(o.date1, o.date2))
    ELSE FromFields(o)

\* new RelativeDelta(options): [err |-> e] when it throws, else [err |-> "", delta]
RelativeDelta(o) ==
    IF ("date1" \in DOMAIN o) # ("date2" \in DOMAIN o) THEN Failed(ErrBothDates)
    ELSE IF "date1" \in DOMAIN o THEN Built(DiffDelta(o.date1, o.date2))
    ELSE FromFields(o)

----------------------------------------------------------------------------
\* RelativeDelta: applyToDate

\* the absolute year
ApplyYear(d, t) ==
    IF "year" \in DOMAIN d.abs THEN setFullYear(t, d.abs.year) ELSE t

\* the absolute month and day, handled together
ApplyMonthDay(d, t) ==
    IF "month" \in DOMAIN d.abs \/ "day" \in DOMAIN d.abs
    THEN LET targetYear  == getFullYear(t)
             targetMonth == IF "month" \in DOMAIN d.abs
                            THEN d.abs.month - Num(1) ELSE Num(getMonth(t))
             daysInTargetMonth == Num(DaysInMonth(targetYear, targetMonth))
         IN  IF "day" \in DOMAIN d.abs
             THEN setFullYear3(t, Num(targetYear), targetMonth,
                               Min(d.abs.day, daysInTargetMonth))
             ELSE setFullYear3(t, Num(targetYear), targetMonth,
                               Min(Num(getDate(t)), daysInTargetMonth))
    ELSE t

\* the absolute hour, minute, second and millisecond
ApplyHour(d, t) == IF "hour" \in DOMAIN d.abs THEN setHours(t, d.abs.hour) ELSE t

ApplyMinute(d, t) == IF "minute" \in DOMAIN d.abs THEN setMinutes(t, d.abs.minute) ELSE t

ApplySecond(d, t) == IF "second" \in DOMAIN d.abs THEN setSeconds(t, d.abs.second) ELSE t

ApplyMillisecond(d, t) ==
    IF "millisecond" \in DOMAIN d.abs THEN setMilliseconds(t, d.abs.millisecond) ELSE t

\* (the statements run in order: each set below holds the one Date the
\* statement before left)
ApplyTimeOfDay(d, t) ==
    CHOOSE r \in
      { ApplyMillisecond(d, t3) : t3 \in
      { ApplySecond(d, t2) : t2 \in
      { ApplyMinute(d, t1) : t1 \in
      { ApplyHour(d, t) } } } } : TRUE

\* the relative years
ApplyYears_Clamped(d, t) ==
    IF d.years = 0 THEN t
    ELSE setFullYear3(t, Num(getFullYear(t)) + d.years, Num(getMonth(t)),
                      Num(Min(getDate(t),
                              DaysInMonth(getFullYear(t) + Trunc(d.years), Num(getMonth(t))))))

ApplyYears(d, t) ==
    IF d.years # 0 THEN setFullYear(t, Num(getFullYear(t)) + d.years) ELSE t

\* ((targetMonth % 12) + 12) % 12
NormalizedMonth(targetMonth) == JsRem(JsRem(targetMonth, Num(12)) + Num(12), Num(12))

\* the relative months: the 1st of the target month, then the original day
\* or the last day of the target month
SetMonthClamped(t, targetYear, normalizedTargetMonth, originalDay) ==
    setDate(setFullYear3(t, Num(targetYear), normalizedTargetMonth, Num(1)),
            Num(Min(originalDay, DaysInMonth(targetYear, normalizedTargetMonth))))

AddMonths(t, targetMonth) ==
    SetMonthClamped(t, getFullYear(t) + targetMonth \div Num(12),
                    NormalizedMonth(targetMonth), getDate(t))

ApplyMonths(d, t) ==
    IF d.months # 0 THEN AddMonths(t, Num(getMonth(t)) + d.months) ELSE t

\* daysToAdd that adds leapDays in any month of a leap year
DaysToAdd_AnyMonth(d, t) ==
    IF d.leapDays # 0 /\ isLeapYear(getFullYear(t))
    THEN d.days + d.leapDays
    ELSE d.days

\* daysToAdd: the relative days, plus leapDays in a leap year after February
DaysToAdd(d, t) ==
    IF d.leapDays # 0 /\ isLeapYear(getFullYear(t)) /\ getMonth(t) > 1
    THEN d.days + d.leapDays
    ELSE d.days

\* the relative days, hours, minutes, seconds and milliseconds
AddDays(t, daysToAdd) ==
    IF daysToAdd # 0 THEN setDate(t, Num(getDate(t)) + daysToAdd) ELSE t

AddHours(t, hours) == IF hours # 0 THEN setHours(t, Num(getHours(t)) + hours) ELSE t

AddMinutes(t, minutes) ==
    IF minutes # 0 THEN setMinutes(t, Num(getMinutes(t)) + minutes) ELSE t

AddSeconds(t, seconds) ==
    IF seconds # 0 THEN setSeconds(t, Num(getSeconds(t)) + seconds) ELSE t

AddMilliseconds(t, milliseconds) ==
    IF milliseconds # 0
    THEN setMilliseconds(t, Num(getMilliseconds(t)) + milliseconds) ELSE t

ApplyDaysAndTime(d, t) ==
    CHOOSE r \in
      { AddMilliseconds(t4, d.milliseconds) : t4 \in
      { AddSeconds(t3, d.seconds) : t3 \in
      { AddMinutes(t2, d.minutes) : t2 \in
      { AddHours(t1, d.hours) : t1 \in
      { AddDays(t, DaysToAdd(d, t)) } } } } } : TRUE

\* jumpDays without the `% 7` of the forward search: a date already on the
\* weekday moves a week ahead
JumpDays_NextWeek(wd, t) ==
    LET weekDay == wd.weekDay
        nth     == IF wd.n # 0 THEN wd.n ELSE 1
        base    == (Abs(nth) - 1) * 7
        currentWeekday == (getDay(t) + 6) % 7
    IN  IF nth > 0
        THEN base + (7 - currentWeekday + weekDay)
        ELSE -(base + JsRem(currentWeekday - weekDay, 7))

\* jumpDays of the weekday search
JumpDays(wd, t) ==
    LET weekDay == wd.weekDay
        nth     == IF wd.n # 0 THEN wd.n ELSE 1
        base    == (Abs(nth) - 1) * 7
        currentWeekday == (getDay(t) + 6) % 7
    IN  IF nth > 0
        THEN base + JsRem(7 - currentWeekday + weekDay, 7)
        ELSE -(base + JsRem(currentWeekday - weekDay, 7))

\* the Date whose time value is NaN; the tod of every other Date is >= 0
InvalidDate == [dn |-> 0, tod |-> -1]

\* the weekday search; with a weekDay that is no number jumpDays is NaN and
\* setDate(NaN) leaves an Invalid Date
ApplyWeekday(d, t) ==
    IF d.weekDay = NoWeekday THEN t
    ELSE IF d.weekDay[1].weekDay = InheritedValue THEN InvalidDate
    ELSE setDate(t, Num(getDate(t) + JumpDays(d.weekDay[1], t)))

\* applyToDate with the relative offsets applied before the absolute overrides
ApplyDelta_RelativeFirst(d, t) ==
    CHOOSE r \in
      { ApplyWeekday(d, t6) : t6 \in
      { ApplyTimeOfDay(d, t5) : t5 \in
      { ApplyMonthDay(d, t4) : t4 \in
      { ApplyYear(d, t3) : t3 \in
      { ApplyDaysAndTime(d, t2) : t2 \in
      { ApplyMonths(d, t1) : t1 \in
      { ApplyYears(d, t) } } } } } } } : TRUE

\* applyToDate, on the copy of the argument: the value of the result
ApplyDelta(d, t) ==
    CHOOSE r \in
      { ApplyWeekday(d, t6) : t6 \in
      { ApplyDaysAndTime(d, t5) : t5 \in
      { ApplyMonths(d, t4) : t4 \in
      { ApplyYears(d, t3) : t3 \in
      { ApplyTimeOfDay(d, t2) : t2 \in
      { ApplyMonthDay(d, t1) : t1 \in
      { ApplyYear(d, t) } } } } } } } : TRUE

----------------------------------------------------------------------------
\* JavaScript numbers. toSeconds, toDays and normalized() compute in IEEE 754
\* doubles and `Math.round(x * 1e10) / 1e10` is not the identity on them, so
\* these methods are modelled on doubles, each operation rounded to nearest
\* with ties to even as the language defines it.
\*
\* A natural number of any size is the sequence of its digits in base 4096,
\* lowest first, without a leading zero digit (TLC integers have 32 bits).

BigDigit(a, i) == IF i <= Len(a) THEN a[i] ELSE 0

RECURSIVE BigTrim(_)
BigTrim(a) ==
    IF a = <<>> THEN a
    ELSE IF a[Len(a)] # 0 THEN a
    ELSE BigTrim(SubSeq(a, 1, Len(a) - 1))

\* n >= 0
BigOfInt(n) == BigTrim(<<n % 4096, (n \div 4096) % 4096, n \div 16777216>>)

RECURSIVE IntOfBigFrom(_, _)
IntOfBigFrom(a, i) == IF i > Len(a) THEN 0 ELSE a[i] + 4096 * IntOfBigFrom(a, i + 1)

IntOfBig(a) == IntOfBigFrom(a, 1)

RECURSIVE BigAddFrom(_, _, _, _)
BigAddFrom(a, b, i, carry) ==
    IF i > Len(a) /\ i > Len(b) THEN BigOfInt(carry)
    ELSE <<(BigDigit(a, i) + BigDigit(b, i) + carry) % 4096>>
         \o BigAddFrom(a, b, i + 1, (BigDigit(a, i) + BigDigit(b, i) + carry) \div 4096)

BigAdd(a, b) == BigAddFrom(a, b, 1, 0)

RECURSIVE BigSubFrom(_, _, _, _)
BigSubFrom(a, b, i, borrow) ==
    IF i > Len(a) THEN <<>>
    ELSE <<(a[i] - BigDigit(b, i) - borrow) % 4096>>
         \o BigSubFrom(a, b, i + 1, IF a[i] - BigDigit(b, i) - borrow < 0 THEN 1 ELSE 0)

\* a - b, for a >= b
BigSub(a, b) == BigTrim(BigSubFrom(a, b, 1, 0))

RECURSIVE BigCmpFrom(_, _, _)
BigCmpFrom(a, b, i) ==
    IF i = 0 THEN 0
    ELSE IF a[i] > b[i] THEN 1
    ELSE IF a[i] < b[i] THEN -1
    ELSE BigCmpFrom(a, b, i - 1)

\* 1, 0 or -1 as a is above, equal to or below b
BigCmp(a, b) ==
    IF Len(a) > Len(b) THEN 1
    ELSE IF Len(a) < Len(b) THEN -1
    ELSE BigCmpFrom(a, b, Len(a))

RECURSIVE BigMulFrom(_, _, _, _)
BigMulFrom(a, c, i, carry) ==
    IF i > Len(a) THEN BigOfInt(carry)
    ELSE <<(a[i] * c + carry) % 4096>>
         \o BigMulFrom(a, c, i + 1, (a[i] * c + carry) \div 4096)

\* a * c, for 0 <= c <= 2^18
BigMul(a, c) == BigTrim(BigMulFrom(a, c, 1, 0))

BigDivStep(lower, digit) == [q |-> lower.q \o <<digit>>, r |-> lower.r]

RECURSIVE BigDivFrom(_, _, _, _)
BigDivFrom(a, c, i, rem) ==
    IF i = 0 THEN [q |-> <<>>, r |-> rem]
    ELSE BigDivStep(BigDivFrom(a, c, i - 1, (rem * 4096 + a[i]) % c),
                    (rem * 4096 + a[i]) \div c)

BigDivTrim(qr) == [q |-> BigTrim(qr.q), r |-> qr.r]

\* quotient q and remainder r of a by c, for 0 < c <= 2^18
BigDiv(a, c) == BigDivTrim(BigDivFrom(a, c, Len(a), 0))

\* a * 2^k
BigShl(a, k) ==
    IF a = <<>> THEN a
    ELSE BigMul([i \in 1..(k \div 12) |-> 0] \o a, 2^(k % 12))

\* a \div 2^k
BigShr(a, k) ==
    IF k \div 12 >= Len(a) THEN <<>>
    ELSE BigDiv(SubSeq(a, k \div 12 + 1, Len(a)), 2^(k % 12)).q

\* a % 2^k
BigLow(a, k) == BigSub(a, BigShl(BigShr(a, k), k))

\* the number of binary digits of a
BigBits(a) ==
    IF a = <<>> THEN 0
    ELSE 12 * (Len(a) - 1)
         + CHOOSE b \in 1..12 : 2^(b - 1) <= a[Len(a)] /\ a[Len(a)] < 2^b

BigOdd(a) == a # <<>> /\ a[1] % 2 = 1

\* A double is [neg, m, e]: the number m * 2^e, negated when neg, with m a
\* natural number of exactly 53 binary digits; zero has m = <<>>. (The sign of
\* zero, the subnormal numbers, the infinities and NaN do not occur.)
FloatZero == [neg |-> FALSE, m |-> <<>>, e |-> 0]

FloatPack(neg, m, e) ==
    IF BigBits(m) > 53 THEN [neg |-> neg, m |-> BigShr(m, 1), e |-> e + 1]
    ELSE [neg |-> neg, m |-> m, e |-> e]

\* round to nearest, ties to even: cmp compares the digits cut off with one half
RoundsUp(cmp, inexact, odd) == cmp = 1 \/ (cmp = 0 /\ (inexact \/ odd))

FloatCut(neg, kept, cmp, inexact, e) ==
    FloatPack(neg,
              IF RoundsUp(cmp, inexact, BigOdd(kept)) THEN BigAdd(kept, <<1>>) ELSE kept,
              e)

\* the double nearest to n * 2^e, or to a number strictly between n * 2^e and
\* (n + 1) * 2^e when inexact (n then has 55 digits or more)
FloatRound(neg, n, inexact, e) ==
    IF n = <<>> THEN FloatZero
    ELSE IF BigBits(n) <= 53
    THEN [neg |-> neg, m |-> BigShl(n, 53 - BigBits(n)), e |-> e - (53 - BigBits(n))]
    ELSE FloatCut(neg, BigShr(n, BigBits(n) - 53),
                  BigCmp(BigLow(n, BigBits(n) - 53), BigShl(<<1>>, BigBits(n) - 54)),
                  inexact, e + BigBits(n) - 53)

FloatOfInt(k) == FloatRound(k < 0, BigOfInt(Abs(k)), FALSE, 0)

FloatQuotientEnd(neg, d2, inexact, e) == FloatRound(neg, d2.q, inexact \/ d2.r # 0, e)

FloatQuotientOf(neg, d1, c2, e) == FloatQuotientEnd(neg, BigDiv(d1.q, c2), d1.r # 0, e)

\* the double nearest to n * 2^e / (c1 * c2), for 0 < c1, c2 <= 2^18
FloatQuotient(neg, n, c1, c2, e) ==
    FloatQuotientOf(neg, BigDiv(BigShl(n, 96), c1), c2, e - 96)

\* the double nearest to k / c
FloatOfRatio(k, c) ==
    IF k % c = 0 THEN FloatOfInt(k \div c)
    ELSE FloatQuotient(k < 0, BigOfInt(Abs(k)), c, 1, 0)

\* x / (c1 * c2)
FloatDiv(x, c1, c2) == FloatQuotient(x.neg, x.m, c1, c2, x.e)

\* x * (c1 * c2), for 0 < c1, c2 <= 2^18
FloatMul(x, c1, c2) == FloatRound(x.neg, BigMul(BigMul(x.m, c1), c2), FALSE, x.e)

FloatNeg(x) == IF x.m = <<>> THEN x ELSE [x EXCEPT !.neg = ~x.neg]

FloatSum(xneg, a, yneg, b, e) ==
    IF xneg = yneg THEN FloatRound(xneg, BigAdd(a, b), FALSE, e)
    ELSE IF BigCmp(a, b) >= 0 THEN FloatRound(xneg, BigSub(a, b), FALSE, e)
    ELSE FloatRound(yneg, BigSub(b, a), FALSE, e)

FloatAddAt(x, y, e) ==
    FloatSum(x.neg, BigShl(x.m, x.e - e), y.neg, BigShl(y.m, y.e - e), e)

\* x + y
FloatAdd(x, y) ==
    IF x.m = <<>> THEN y
    ELSE IF y.m = <<>> THEN x
    ELSE FloatAddAt(x, y, IF x.e < y.e THEN x.e ELSE y.e)

\* x - y
FloatSub(x, y) == FloatAdd(x, FloatNeg(y))

\* |x| < |y|
FloatBelow(x, y) ==
    IF y.m = <<>> THEN FALSE
    ELSE IF x.m = <<>> THEN TRUE
    ELSE x.e < y.e \/ (x.e = y.e /\ BigCmp(x.m, y.m) < 0)

\* Number.isInteger(x)
NumberIsInteger(x) ==
    x.m = <<>> \/ x.e >= 0 \/ (x.e > -53 /\ BigLow(x.m, -x.e) = <<>>)

\* the whole part of |x|
FloatWhole(x) ==
    IF x.m = <<>> THEN <<>>
    ELSE IF x.e >= 0 THEN BigShl(x.m, x.e)
    ELSE BigShr(x.m, -x.e)

\* the fraction of |x| against one half: 1, 0 or -1
FloatHalf(x) ==
    IF x.m = <<>> \/ x.e >= 0 THEN -1
    ELSE BigCmp(BigLow(x.m, -x.e), BigShl(<<1>>, -x.e - 1))

\* Math.trunc(x)
MathTrunc(x) == FloatRound(x.neg, FloatWhole(x), FALSE, 0)

\* Math.floor(x)
MathFloor(x) ==
    IF x.neg /\ ~NumberIsInteger(x)
    THEN FloatRound(TRUE, BigAdd(FloatWhole(x), <<1>>), FALSE, 0)
    ELSE MathTrunc(x)

\* Math.round(x): the nearest integer, a tie goes up
MathRound(x) ==
    IF (IF x.neg THEN FloatHalf(x) > 0 ELSE FloatHalf(x) >= 0)
    THEN FloatRound(x.neg, BigAdd(FloatWhole(x), <<1>>), FALSE, 0)
    ELSE MathTrunc(x)

\* Math.abs(x)
MathAbs(x) == [x EXCEPT !.neg = FALSE]

\* the integer an integral double holds
IntOfFloat(x) == IF x.neg THEN -IntOfBig(FloatWhole(x)) ELSE IntOfBig(FloatWhole(x))

\* the double of a field kept as k / Q
Field(k) == FloatOfRatio(k, Q)

\* handleFloatingPoint(x)
handleFloatingPoint(x) ==
    IF NumberIsInteger(x) THEN x
    ELSE IF FloatBelow(FloatSub(MathRound(x), x), FloatQuotient(FALSE, <<1>>, 1000, 1000, 0))
    THEN MathRound(x)
    ELSE FloatDiv(MathRound(FloatMul(x, 100000, 100000)), 100000, 100000)

----------------------------------------------------------------------------
\* RelativeDelta: toSeconds and normalized

\* totalDays * 86400 + hours * 3600 + minutes * 60 + seconds + milliseconds / 1000
TotalSeconds(d, totalDays) ==
    FloatAdd(FloatAdd(FloatAdd(FloatAdd(FloatMul(totalDays, 86400, 1),
                                        FloatMul(Field(d.hours), 3600, 1)),
                               FloatMul(Field(d.minutes), 60, 1)),
                      Field(d.seconds)),
             FloatDiv(Field(d.milliseconds), 1000, 1))

\* calculateTotalSeconds(), from totalDays and the time fields
calculateTotalSeconds(d, totalDays) == handleFloatingPoint(TotalSeconds(d, totalDays))

\* endDate of toSeconds: the years, then the months (setFullYear with the
\* year adjustment, then setMonth), then the month-end check
EndAddYears(e, years) ==
    IF years # 0 THEN setFullYear(e, Num(getFullYear(e)) + years) ELSE e

EndSetMonth(e, targetMonth) ==
    setMonth(setFullYear(e, Num(getFullYear(e) + targetMonth \div Num(12))),
             NormalizedMonth(targetMonth))

EndAddMonths(e, months) ==
    IF months # 0 THEN EndSetMonth(e, Num(getMonth(e)) + months) ELSE e

EndClamp(e) ==
    IF getDate(e) > DaysInMonth(getFullYear(e), Num(getMonth(e)))
    THEN setDate(e, Num(DaysInMonth(getFullYear(e), Num(getMonth(e)))))
    ELSE e

ToSecondsEndDate(d, noon) ==
    CHOOSE r \in
      { EndClamp(e2) : e2 \in
      { EndAddMonths(e1, d.months) : e1 \in
      { EndAddYears(noon, d.years) } } } : TRUE

\* Math.round((endUtc - startUtc) / millisecondsPerDay)
DaysDiff(startDate, endDate) ==
    DateUTC(getFullYear(endDate), getMonth(endDate), getDate(endDate))
    - DateUTC(getFullYear(startDate), getMonth(startDate), getDate(startDate))

\* the reference set to noon
Noon(referenceDate) == setHours4(referenceDate, Num(12), 0, 0, 0)

\* toSeconds(referenceDate)
toSeconds(d, referenceDate) ==
    IF d.years = 0 /\ d.months = 0
    THEN calculateTotalSeconds(d, FloatAdd(Field(d.days), Field(d.leapDays)))
    ELSE CHOOSE r \in
           { calculateTotalSeconds(d, FloatAdd(FloatAdd(Field(d.days), Field(d.leapDays)),
                                               FloatOfInt(DaysDiff(startDate, endDate)))) :
               startDate \in { Noon(referenceDate) },
               endDate \in { ToSecondsEndDate(d, Noon(referenceDate)) } } : TRUE

\* seconds / 86400
Days(seconds) == FloatDiv(seconds, 86400, 1)

\* toDays(referenceDate) = toSeconds(referenceDate) / 86400
toDays(d, referenceDate) == Days(toSeconds(d, referenceDate))

\* the field an integral double is stored as
Value(v) == Num(IntOfFloat(v))

\* the options of normalized() with hoursFloat = hours + 24 * days: the whole
\* days are counted in the days and in the hours
NormalizedOptions_DaysCountedTwice(d) ==
    LET days         == MathTrunc(Field(d.days))
        hoursFloat   == handleFloatingPoint(FloatAdd(Field(d.hours), FloatMul(Field(d.days), 24, 1)))
        hours        == MathTrunc(hoursFloat)
        minutesFloat == handleFloatingPoint(
                            FloatAdd(Field(d.minutes), FloatMul(FloatSub(hoursFloat, hours), 60, 1)))
        minutes      == MathTrunc(minutesFloat)
        secondsFloat == handleFloatingPoint(
                            FloatAdd(Field(d.seconds), FloatMul(FloatSub(minutesFloat, minutes), 60, 1)))
        seconds      == MathFloor(secondsFloat)
        milliseconds == MathRound(
                            FloatAdd(Field(d.milliseconds),
                                     FloatMul(FloatSub(secondsFloat, seconds), 1000, 1)))
    IN  [years |-> d.years, months |-> d.months, days |-> Value(days), hours |-> Value(hours),
         minutes |-> Value(minutes), seconds |-> Value(seconds),
         milliseconds |-> Value(milliseconds)]

\* the options of normalized() with hoursFloat = hours: the fraction of the
\* days is dropped
NormalizedOptions_FractionDropped(d) ==
    LET days         == MathTrunc(Field(d.days))
        hoursFloat   == handleFloatingPoint(Field(d.hours))
        hours        == MathTrunc(hoursFloat)
        minutesFloat == handleFloatingPoint(
                            FloatAdd(Field(d.minutes), FloatMul(FloatSub(hoursFloat, hours), 60, 1)))
        minutes      == MathTrunc(minutesFloat)
        secondsFloat == handleFloatingPoint(
                            FloatAdd(Field(d.seconds), FloatMul(FloatSub(minutesFloat, minutes), 60, 1)))
        seconds      == MathFloor(secondsFloat)
        milliseconds == MathRound(
                            FloatAdd(Field(d.milliseconds),
                                     FloatMul(FloatSub(secondsFloat, seconds), 1000, 1)))
    IN  [years |-> d.years, months |-> d.months, days |-> Value(days), hours |-> Value(hours),
         minutes |-> Value(minutes), seconds |-> Value(seconds),
         milliseconds |-> Value(milliseconds)]

\* the options normalized() passes to the constructor
NormalizedOptions(d) ==
    LET days         == MathTrunc(Field(d.days))
        hoursFloat   == handleFloatingPoint(
                            FloatAdd(Field(d.hours), FloatMul(FloatSub(Field(d.days), days), 24, 1)))
        hours        == MathTrunc(hoursFloat)
        minutesFloat == handleFloatingPoint(
                            FloatAdd(Field(d.minutes), FloatMul(FloatSub(hoursFloat, hours), 60, 1)))
        minutes      == MathTrunc(minutesFloat)
        secondsFloat == handleFloatingPoint(
                            FloatAdd(Field(d.seconds), FloatMul(FloatSub(minutesFloat, minutes), 60, 1)))
        seconds      == MathFloor(secondsFloat)
        milliseconds == MathRound(
                            FloatAdd(Field(d.milliseconds),
                                     FloatMul(FloatSub(secondsFloat, seconds), 1000, 1)))
    IN  [years |-> d.years, months |-> d.months, days |-> Value(days), hours |-> Value(hours),
         minutes |-> Value(minutes), seconds |-> Value(seconds),
         milliseconds |-> Value(milliseconds)]

\* normalized(): the new delta
normalized(d) == RelativeDelta(NormalizedOptions(d)).delta

----------------------------------------------------------------------------
\* The program: one run constructs a delta from its options and then calls
\* one of its methods with a Date argument.

VARIABLES
    opts,    \* the options passed to the constructor
    heap,    \* the Date objects, by reference (1..Len(heap))
    x,       \* the reference of the Date passed to applyToDate / toSeconds
    pc,      \* "start", "built", "failed", "applied", "converted", "normalized"
    delta,   \* the constructed RelativeDelta
    err,     \* the message of the error the constructor threw, "" if none
    result,  \* the reference of the Date applyToDate returned, 0 before
    norm,    \* the delta normalized() returned
    out      \* the number toSeconds returned

vars == <<opts, heap, x, pc, delta, err, result, norm, out>>

NoDelta == [none |-> TRUE]

NoDuration == FloatZero

\* a "copy" that is the argument itself
CopyDate_Alias(h, ref) == [heap |-> h, ref |-> ref]

\* new Date(date): a new object holding the same time value
CopyDate(h, ref) == [heap |-> Append(h, h[ref]), ref |-> Len(h) + 1]

\* the state before the constructor runs
Start(o, date) ==
    /\ opts = o
    /\ heap = <<date>>
    /\ x = 1
    /\ pc = "start"
    /\ delta = NoDelta
    /\ err = ""
    /\ result = 0
    /\ norm = NoDelta
    /\ out = NoDuration

\* new RelativeDelta(opts)
Construct ==
    /\ pc = "start"
    /\ LET r == RelativeDelta(opts)
       IN  IF r.err = ""
           THEN delta' = r.delta /\ err' = "" /\ pc' = "built"
           ELSE delta' = NoDelta /\ err' = r.err /\ pc' = "failed"
    /\ UNCHANGED <<opts, heap, x, result, norm, out>>

\* result = delta.applyToDate(x)
ApplyToDate ==
    /\ pc = "built"
    /\ LET c == CopyDate(heap, x)
       IN  /\ heap' = [c.heap EXCEPT ![c.ref] = ApplyDelta(delta, c.heap[c.ref])]
           /\ result' = c.ref
    /\ pc' = "applied"
    /\ UNCHANGED <<opts, x, delta, err, norm, out>>

\* out = delta.toSeconds(x)
ToSeconds ==
    /\ pc = "built"
    /\ out' = toSeconds(delta, CopyDate(heap, x).heap[CopyDate(heap, x).ref])
    /\ pc' = "converted"
    /\ UNCHANGED <<opts, heap, x, delta, err, result, norm>>

\* norm = delta.normalized()
Normalized ==
    /\ pc = "built"
    /\ norm' = normalized(delta)
    /\ pc' = "normalized"
    /\ UNCHANGED <<opts, heap, x, delta, err, result, out>>

----------------------------------------------------------------------------
\* Inputs

Half == Q \div 2

\* a Date from calendar fields, month 1..12
DateOf(y, m, d, h, mi, s, ms) == NewDate(y, m - 1, d, h, mi, s, ms)

YearLo == 2019

YearHi == 2021

Years == YearLo..YearHi

\* the days of month m of year y in the Gregorian calendar, for every year:
\* what "the number of days of the month" means in a property.  The code
\* takes it from new Date(year, month + 1, 0) and Date.UTC, which read the
\* years 0..99 as 1900..1999 (DaysInMonth, DateUTC)
MonthLength(y, m) ==
    IF m = 2 THEN (IF isLeapYear(y) THEN 29 ELSE 28)
    ELSE IF m \in {4, 6, 9, 11} THEN 30 ELSE 31

SampleDays == {1, 15, 28, 29, 30, 31}

\* calendar days of the sampled years: the first, the middle and the end of
\* every month
CalendarDays ==
    { <<y, m, d>> \in Years \X (1..12) \X SampleDays : d <= MonthLength(y, m) }

Midnight(c) == DateOf(c[1], c[2], c[3], 0, 0, 0, 0)

LastMs(c) == DateOf(c[1], c[2], c[3], 23, 59, 59, 999)

Afternoon(c) == DateOf(c[1], c[2], c[3], 13, 7, 42, 250)

\* days of the years 0..99, which new Date(year, ...) cannot name
EarlyDays == { <<0, 1, 31>>, <<0, 2, 1>>, <<0, 2, 29>>, <<0, 1, 1>>, <<99, 12, 1>>, <<99, 12, 31>> }

\* the afternoon of such a day: a Date of 2020 with setFullYear(year)
EarlyAfternoon(c) == setFullYear(Afternoon(<<2020, c[2], c[3]>>), Num(c[1]))

----------------------------------------------------------------------------
\* Construction and normalization: field-path options with overflowing,
\* negative and fractional values, unpaired and fractional options that
\* throw, and pairs of instants

RelativeOptions ==
    { [years |-> y, months |-> mo, weeks |-> w, days |-> d, hours |-> h,
       minutes |-> mi, seconds |-> s, milliseconds |-> ms] :
        y  \in {Num(-1), 0, Num(2)},
        mo \in {Num(-25), Num(-11), 0, Num(12), Num(30)},
        w  \in {0, -(Num(1) + Half)},
        d  \in {0, Num(2) + Half, Num(-3)},
        h  \in {0, Num(23), Num(24), -(Num(49) + Half)},
        mi \in {0, Num(-61), Num(59) + Half},
        s  \in {Num(1), Num(-3600), Num(59)},
        ms \in {0, Num(-500), Num(1000), Num(123456) + 1} }

DiffInstants ==
    UNION { {Midnight(c), Afternoon(c), LastMs(c)} :
              c \in { <<2019, 12, 31>>, <<2020, 1, 31>>, <<2020, 2, 29>>,
                      <<2020, 3, 1>>, <<2021, 2, 28>>, <<2021, 3, 31>> } }

DiffOptions == { [date1 |-> a, date2 |-> b] : a \in DiffInstants, b \in DiffInstants }

ThrowingOptions ==
    { [date1 |-> Midnight(<<2020, 2, 29>>)], [date2 |-> Midnight(<<2020, 2, 29>>)],
      [years |-> Half], [months |-> Num(1) + Half], [day |-> 0], [weeks |-> Num(1), hour |-> Half] }

CtorOptions == RelativeOptions \cup DiffOptions \cup ThrowingOptions

InitCtor == \E o \in CtorOptions : Start(o, Midnight(<<2020, 1, 1>>))

NextCtor == Construct \/ Normalized

SpecCtor == InitCtor /\ [][NextCtor]_vars

\* every bounded field of a delta is below its base
Bounded(d) ==
    /\ Abs(d.milliseconds) < Num(1000)
    /\ Abs(d.seconds) < Num(60)
    /\ Abs(d.minutes) < Num(60)
    /\ Abs(d.hours) < Num(24)
    /\ Abs(d.months) < Num(12)

\* C1: every constructed delta - from option fields, from two instants, or
\* returned by normalized() - has |milliseconds| < 1000, |seconds| < 60,
\* |minutes| < 60, |hours| < 24 and |months| < 12
C1_BoundedFields ==
    /\ pc \in {"built", "normalized"} => Bounded(delta)
    /\ pc = "normalized" => Bounded(norm)

\* a field-path construction in which every chain overflowed, then normalized()
C1_Witness ==
    /\ pc = "normalized"
    /\ "date1" \notin DOMAIN opts
    /\ Abs(opts.milliseconds) >= Num(1000)
    /\ Abs(opts.seconds) >= Num(60)
    /\ Abs(opts.hours) >= Num(24)
    /\ Abs(opts.months) >= Num(12)
    /\ ~IsInteger(opts.days)
    /\ norm # delta

\* no bounded field and its carry target have opposite signs
NeverOpposite(d) ==
    /\ d.milliseconds * d.seconds >= 0
    /\ d.seconds * d.minutes >= 0
    /\ d.minutes * d.hours >= 0
    /\ d.hours * d.days >= 0
    /\ d.months * d.years >= 0

\* the relative fields supplied, weeks folded into days
SuppliedRelative(o) ==
    { Opt(o, "years", 0), Opt(o, "months", 0),
      Opt(o, "days", 0) + Opt(o, "weeks", 0) * 7, Opt(o, "hours", 0),
      Opt(o, "minutes", 0), Opt(o, "seconds", 0), Opt(o, "milliseconds", 0) }

OneSigned(o) ==
    \/ \A v \in SuppliedRelative(o) : v >= 0
    \/ \A v \in SuppliedRelative(o) : v <= 0

\* C2 as stated: after normalization of a delta built from option fields, a
\* bounded field and the field it carries into never have opposite signs
C2_NeverOppositeSigns ==
    (pc = "built" /\ "date1" \notin DOMAIN opts) => NeverOpposite(delta)

\* C2 amended: the same, for options whose relative fields (weeks folded into
\* days) are all non-negative or all non-positive
C2_OneSignedNeverOpposite ==
    (pc = "built" /\ "date1" \notin DOMAIN opts /\ OneSigned(opts))
        => NeverOpposite(delta)

\* negative options that overflow in both chains
C2_Witness ==
    /\ pc = "built"
    /\ "date1" \notin DOMAIN opts
    /\ OneSigned(opts)
    /\ opts.seconds = Num(-3600)
    /\ opts.months = Num(-25)
    /\ delta.hours < 0
    /\ delta.years < 0
    /\ delta.months < 0

----------------------------------------------------------------------------
\* applyToDate: deltas that mix absolute overrides, relative offsets, leapDays
\* and a weekday, applied around the end of February and the end of the year

\* the options of two objects together, b's over a's
Merge(a, b) ==
    [k \in DOMAIN a \cup DOMAIN b |-> IF k \in DOMAIN b THEN b[k] ELSE a[k]]

NoOptions == [k \in {} |-> 0]

AbsoluteParts ==
    { NoOptions,
      [day |-> Num(31)],
      [month |-> Num(2)],
      [year |-> Num(YearHi)],
      [month |-> Num(2), day |-> Num(30)],
      [year |-> Num(YearLo + 1), month |-> Num(2), day |-> Num(29), hour |-> Num(5),
       minute |-> Num(30), second |-> Num(1), millisecond |-> Num(999)] }

RelativeParts ==
    { [years |-> y, months |-> mo, days |-> d, hours |-> h, leapDays |-> l] :
        y  \in {0, Num(1)},
        mo \in {0, Num(1), Num(4), Num(-13)},
        d  \in {0, Num(-1)},
        h  \in {0, Num(25)},
        l  \in {0, Num(10), Num(-1)} }

WeekdayParts ==
    { NoOptions,
      [weekDay |-> [kind |-> "pair", day |-> [str |-> "MO"], n |-> Num(2)]],
      [weekDay |-> [kind |-> "bare", day |-> [num |-> Num(6)]]] }

ApplyOptions ==
    { Merge(Merge(r, a), w) : r \in RelativeParts, a \in AbsoluteParts, w \in WeekdayParts }

ApplyDays ==
    { c \in CalendarDays :
        \/ c[2] \in {1, 3, 12} /\ c[3] = 31
        \/ c[2] = 2 /\ c[3] \in {28, 29}
        \/ c[2] = 3 /\ c[3] = 1 }

InitApply == \E o \in ApplyOptions, c \in ApplyDays : Start(o, Afternoon(c))

NextApply == Construct \/ ApplyToDate

SpecApply == InitApply /\ [][NextApply]_vars

\* C5: a call of applyToDate leaves the Date it was given and every other Date
\* that existed as they were, leaves every field of the delta as it was, and
\* returns a Date object that is not the argument
C5_NoSideEffects ==
    [][pc' = "applied" =>
          /\ x' = x
          /\ \A ref \in DOMAIN heap : heap'[ref] = heap[ref]
          /\ delta' = delta
          /\ result' \in DOMAIN heap'
          /\ result' # x']_vars

\* a delta with absolute, relative, leapDays and weekDay fields was applied and
\* the result holds another instant than the argument
C5_Witness ==
    /\ pc = "applied"
    /\ "year" \in DOMAIN delta.abs
    /\ delta.months # 0
    /\ delta.leapDays # 0
    /\ delta.weekDay # NoWeekday
    /\ heap[result] # heap[x]

\* the delta with only its absolute fields, only its relative fields (leapDays
\* included), only its weekDay
OnlyAbsolute(d) ==
    [d EXCEPT !.years = 0, !.months = 0, !.days = 0, !.hours = 0, !.minutes = 0,
              !.seconds = 0, !.milliseconds = 0, !.leapDays = 0, !.weekDay = NoWeekday]

OnlyRelative(d) == [d EXCEPT !.abs = NoOptions, !.weekDay = NoWeekday]

OnlyWeekday(d) == [OnlyAbsolute(d) EXCEPT !.abs = NoOptions, !.weekDay = d.weekDay]

\* C8: d.applyToDate(x) is W.applyToDate(R.applyToDate(A.applyToDate(x))) for
\* A, R, W the absolute, relative and weekDay parts of d; and {months: 1,
\* day: 31} on 2020-01-31 gives 2020-02-29
C8_AbsoluteRelativeWeekday ==
    pc = "applied" =>
        /\ \A afterA \in { ApplyDelta(OnlyAbsolute(delta), heap[x]) } :
             \A afterR \in { ApplyDelta(OnlyRelative(delta), afterA) } :
               heap[result] = ApplyDelta(OnlyWeekday(delta), afterR)
        /\ (/\ DOMAIN delta.abs = {"day"}
            /\ delta.abs.day = Num(31)
            /\ OnlyRelative(delta) = [OnlyRelative(delta) EXCEPT
                                         !.years = 0, !.months = Num(1), !.days = 0,
                                         !.hours = 0, !.leapDays = 0]
            /\ delta.months = Num(1)
            /\ delta.weekDay = NoWeekday
            /\ heap[x] = Afternoon(<<2020, 1, 31>>))
           => heap[result] = Afternoon(<<2020, 2, 29>>)

\* {months: 1, day: 31} applied to 2020-01-31
C8_Witness ==
    /\ pc = "applied"
    /\ DOMAIN delta.abs = {"day"}
    /\ delta.abs.day = Num(31)
    /\ delta.months = Num(1)
    /\ delta.years = 0
    /\ delta.days = 0
    /\ delta.hours = 0
    /\ delta.leapDays = 0
    /\ delta.weekDay = NoWeekday
    /\ heap[x] = Afternoon(<<2020, 1, 31>>)
    /\ heap[result] = Afternoon(<<2020, 2, 29>>)

\* the date after the absolute overrides and the relative years and months
AfterMonths(d, t) ==
    CHOOSE r \in
      { ApplyMonths(d, t4) : t4 \in
      { ApplyYears(d, t3) : t3 \in
      { ApplyTimeOfDay(d, t2) : t2 \in
      { ApplyMonthDay(d, t1) : t1 \in
      { ApplyYear(d, t) } } } } } : TRUE

\* the year of t is a leap year by the 4/100/400 rule and t is in March or later
LeapDaysCount(t) ==
    /\ \/ getFullYear(t) % 4 = 0 /\ getFullYear(t) % 100 # 0
       \/ getFullYear(t) % 400 = 0
    /\ getMonth(t) + 1 >= 3

\* the delta with leapDays moved into days, and with leapDays dropped
LeapDaysAsDays(d) == [d EXCEPT !.days = @ + d.leapDays, !.leapDays = 0]

LeapDaysDropped(d) == [d EXCEPT !.leapDays = 0]

\* C9: when the date after the absolute overrides and the relative years and
\* months is in March or later of a leap year, the result is that of the delta
\* with leapDays added to days; otherwise it is that of the delta without
\* leapDays.  {months: 4, leapDays: 10} on January 31 gives May 31 in a common
\* year and June 10 in 2020
C9_LeapDaysIffLeapYearAfterFebruary ==
    pc = "applied" =>
        /\ heap[result] =
             IF LeapDaysCount(AfterMonths(delta, heap[x]))
             THEN ApplyDelta(LeapDaysAsDays(delta), heap[x])
             ELSE ApplyDelta(LeapDaysDropped(delta), heap[x])
        /\ (/\ delta = [OnlyRelative(delta) EXCEPT
                           !.years = 0, !.months = Num(4), !.days = 0, !.hours = 0,
                           !.leapDays = Num(10)]
            /\ getMonth(heap[x]) = 0
            /\ getDate(heap[x]) = 31)
           => heap[result] =
                IF getFullYear(heap[x]) = 2020
                THEN Afternoon(<<2020, 6, 10>>)
                ELSE Afternoon(<<getFullYear(heap[x]), 5, 31>>)

\* leapDays made a difference: {months: 4, leapDays: 10} on 2020-01-31
C9_Witness ==
    /\ pc = "applied"
    /\ delta.leapDays = Num(10)
    /\ delta.months = Num(4)
    /\ delta.years = 0
    /\ delta.days = 0
    /\ delta.hours = 0
    /\ DOMAIN delta.abs = {}
    /\ delta.weekDay = NoWeekday
    /\ heap[x] = Afternoon(<<2020, 1, 31>>)
    /\ heap[result] = Afternoon(<<2020, 6, 10>>)
    /\ heap[result] # ApplyDelta(LeapDaysDropped(delta), heap[x])

----------------------------------------------------------------------------
\* applyToDate: an absolute day, with and without an absolute month and year

AbsoluteMonths == {1, 2, 4, 12}

AbsoluteDayOptions ==
    { [day |-> Num(d)] : d \in SampleDays }
    \cup { [day |-> Num(d), month |-> Num(m)] : d \in SampleDays, m \in AbsoluteMonths }
    \cup { [day |-> Num(d), year |-> Num(y)] : d \in SampleDays, y \in {YearLo, YearHi} }
    \cup { [day |-> Num(d), month |-> Num(m), year |-> Num(y)] :
             d \in SampleDays, m \in AbsoluteMonths, y \in {YearLo, YearHi} }

InitAbsolute == \E o \in AbsoluteDayOptions, c \in CalendarDays : Start(o, Afternoon(c))

NextAbsolute == Construct \/ ApplyToDate

SpecAbsolute == InitAbsolute /\ [][NextAbsolute]_vars

\* the year and month (1..12) the overrides of a delta name for the Date t
TargetYear(d, t) ==
    IF "year" \in DOMAIN d.abs THEN Trunc(d.abs.year) ELSE getFullYear(t)

TargetMonth(d, t) ==
    IF "month" \in DOMAIN d.abs THEN Trunc(d.abs.month) ELSE getMonth(t) + 1

\* the Date is the day min(day, length of the month) of month m of year y
ClampedDayOf(t, y, m, day) ==
    /\ getFullYear(t) = y
    /\ getMonth(t) + 1 = m
    /\ getDate(t) = Min(day, MonthLength(y, m))

\* C6: a delta with an absolute day d, with or without an absolute month, and
\* no relative field or weekDay, applied to x gives day min(d, days in the
\* month) of the target month (the explicit month, else the month of x) of
\* the target year (the explicit year, else the year of x)
C6_DayClampedInTargetMonth ==
    pc = "applied" =>
        ClampedDayOf(heap[result], TargetYear(delta, heap[x]),
                     TargetMonth(delta, heap[x]), Trunc(delta.abs.day))

\* day 31 applied in February 2020 gave February 29
C6_Witness ==
    /\ pc = "applied"
    /\ DOMAIN delta.abs = {"day"}
    /\ delta.abs.day = Num(31)
    /\ getFullYear(heap[x]) = 2020
    /\ getMonth(heap[x]) = 1
    /\ getDate(heap[result]) = 29
    /\ getMonth(heap[result]) = 1

----------------------------------------------------------------------------
\* applyToDate: relative months alone

MaxMonths == 14

MonthsOptions == { [months |-> Num(m)] : m \in (-MaxMonths)..MaxMonths }

InitMonths ==
    \/ \E o \in MonthsOptions, c \in CalendarDays :
           Start(o, Afternoon(c)) \/ Start(o, LastMs(c))
    \/ \E o \in MonthsOptions, c \in EarlyDays : Start(o, EarlyAfternoon(c))

NextMonths == Construct \/ ApplyToDate

SpecMonths == InitMonths /\ [][NextMonths]_vars

\* the 0-based month count of t plus the months of the delta
MonthSum(d, t) == getMonth(t) + Trunc(d.months)

\* C7: a delta whose only field after normalization is months = m, applied to
\* y-mo-d, gives year y + floor((mo0 + m) / 12), 0-based month (mo0 + m) mod 12,
\* day min(d, days in that month), and the same time of day
C7_MonthsClampedInTargetMonth ==
    (pc = "applied" /\ delta.years = 0) =>
        /\ ClampedDayOf(heap[result],
                        getFullYear(heap[x]) + MonthSum(delta, heap[x]) \div 12,
                        (MonthSum(delta, heap[x]) % 12) + 1,
                        getDate(heap[x]))
        /\ heap[result].tod = heap[x].tod

\* negative months that cross into the year before and land in a shorter month
C7_Witness ==
    /\ pc = "applied"
    /\ delta.years = 0
    /\ delta.months = Num(-4)
    /\ heap[x] = LastMs(<<2020, 3, 31>>)
    /\ heap[result] = LastMs(<<2019, 11, 30>>)

----------------------------------------------------------------------------
\* applyToDate: the weekday search, after no step, a relative step and an
\* absolute step

MaxNth == 5

WeekdayCodes == {"MO", "TU", "WE", "TH", "FR", "SA", "SU"}

WeekdayValues ==
    { [kind |-> "pair", day |-> [num |-> Num(w)], n |-> n] :
        w \in 0..6, n \in {0, Num(1), Num(2) + Half, Num(MaxNth), Num(-1), Num(-2)} }
    \cup { [kind |-> "pair", day |-> [str |-> c], n |-> Num(3)] : c \in WeekdayCodes }
    \cup { [kind |-> "bare", day |-> [str |-> c]] : c \in WeekdayCodes }
    \cup { [kind |-> "bare", day |-> [num |-> Num(w)]] : w \in {0, 6, 7} }
    \cup { [kind |-> "Weekday", weekDay |-> 3, n |-> 2],
           [kind |-> "pair", day |-> [str |-> "XX"], n |-> Num(1)],
           [kind |-> "bare", day |-> [str |-> "constructor"]],
           [kind |-> "pair", day |-> [str |-> "toString"], n |-> Num(-1)] }

WeekdaySteps ==
    { NoOptions, [days |-> Num(3)], [month |-> Num(2), day |-> Num(31)],
      [months |-> Num(-1), hours |-> Num(30)] }

WeekdayOptions ==
    { Merge(st, [weekDay |-> w]) : st \in WeekdaySteps, w \in WeekdayValues }

WeekdayDays == { c \in CalendarDays : c[2] \in {1, 2, 3, 12} }

InitWeekday == \E o \in WeekdayOptions, c \in WeekdayDays : Start(o, Afternoon(c))

NextWeekday == Construct \/ ApplyToDate

SpecWeekday == InitWeekday /\ [][NextWeekday]_vars

\* the weekday of a day number, 0 = Monday .. 6 = Sunday (day 0 was a Thursday)
WeekdayOfDay(dn) == (dn + 3) % 7

\* the date reached before the weekday search
BeforeWeekday(d, t) == ApplyDelta([d EXCEPT !.weekDay = NoWeekday], t)

\* t is the n-th date on or after from whose weekday is w, at the same time
NthOnOrAfter(t, from, w, n) ==
    /\ t.dn = from.dn + ((w - WeekdayOfDay(from.dn)) % 7) + 7 * (n - 1)
    /\ t.tod = from.tod
    /\ WeekdayOfDay(t.dn) = w
    /\ t.dn >= from.dn

\* C10: for a weekDay (w, n) with n >= 1, or n = 0 taken as 1, the result is
\* x' + ((w - weekday(x')) mod 7) + 7 * (n - 1) days, x' the date after the
\* absolute and relative steps: on weekday w, never before x', and x' itself
\* for n = 1 when x' is on weekday w
C10_ForwardWeekdaySearch ==
    (/\ pc = "applied"
     /\ delta.weekDay # NoWeekday
     /\ delta.weekDay[1].weekDay \in 0..6
     /\ delta.weekDay[1].n >= 0) =>
        NthOnOrAfter(heap[result], BeforeWeekday(delta, heap[x]),
                     delta.weekDay[1].weekDay,
                     IF delta.weekDay[1].n = 0 THEN 1 ELSE delta.weekDay[1].n)

\* a date already on the weekday was its own first occurrence, after a
\* relative step
C10_Witness ==
    /\ pc = "applied"
    /\ delta.weekDay # NoWeekday
    /\ delta.weekDay[1].n = 1
    /\ delta.days = Num(3)
    /\ WeekdayOfDay(heap[x].dn + 3) = delta.weekDay[1].weekDay
    /\ heap[result].dn = heap[x].dn + 3

----------------------------------------------------------------------------
\* The difference of two instants, applied to the second of them and
\* converted to days

DiffInstants1 == { Midnight(c) : c \in CalendarDays } \cup { Afternoon(c) : c \in CalendarDays }

RoundTripOptions ==
    { [date1 |-> a, date2 |-> b] : a \in DiffInstants1, b \in DiffInstants }

\* the documented example: date1 = 2021-12-31, date2 = 2020-01-01
DocumentedDiff ==
    [date1 |-> Midnight(<<2021, 12, 31>>), date2 |-> Midnight(<<2020, 1, 1>>)]

InitDiff ==
    \/ \E o \in RoundTripOptions : Start(o, o.date2)
    \/ \E ref \in DiffInstants1 : Start(DocumentedDiff, ref)

NextDiff == Construct \/ ApplyToDate \/ ToSeconds

SpecDiff == InitDiff /\ [][NextDiff]_vars

\* advancing the calendar day of b by the years and months of the difference
\* kept its day of month: no month-end clamp
NoMonthEndClamp(a, b) ==
    \A t \in { DiffAddMonths(DiffAddYears(b.dn, DiffYears(CivilFromDays(b.dn), CivilFromDays(a.dn))),
                             DiffMonths(CivilFromDays(b.dn), CivilFromDays(a.dn))) } :
        DiffClamp(b.dn, t) = t

\* C3: for instants a > b whose difference needed no month-end clamp,
\* new RelativeDelta({date1: a, date2: b}).applyToDate(b) is a
C3_RoundTrip ==
    (/\ pc = "applied"
     /\ "date1" \in DOMAIN opts
     /\ heap[x] = opts.date2
     /\ ~DateLeq(opts.date1, opts.date2)
     /\ NoMonthEndClamp(opts.date1, opts.date2))
        => heap[result] = opts.date1

\* a difference without month-end clamp that applyToDate brought back to a
C3_Witness ==
    /\ pc = "applied"
    /\ "date1" \in DOMAIN opts
    /\ heap[x] = opts.date2
    /\ ~DateLeq(opts.date1, opts.date2)
    /\ NoMonthEndClamp(opts.date1, opts.date2)
    /\ delta.months # 0
    /\ delta.hours # 0
    /\ heap[result] = opts.date1

\* C4: toDays(ref) of the documented difference is 730 for every reference
C4_ToDays730 ==
    (pc = "converted" /\ opts = DocumentedDiff) => Days(out) = FloatOfInt(730)

\* a reference for which toDays of the documented difference is 730
C4_Witness ==
    /\ pc = "converted"
    /\ opts = DocumentedDiff
    /\ Days(out) = FloatOfInt(730)

----------------------------------------------------------------------------
\* applyToDate: the backward weekday search

\* t is the n-th date on or before from whose weekday is w, at the same time
NthOnOrBefore(t, from, w, n) ==
    /\ t.dn = from.dn - ((WeekdayOfDay(from.dn) - w) % 7) - 7 * (n - 1)
    /\ t.tod = from.tod
    /\ WeekdayOfDay(t.dn) = w
    /\ t.dn <= from.dn

\* C11: for a weekDay (w, n) with n <= -1 the result is
\* x' - ((weekday(x') - w) mod 7) - 7 * (|n| - 1) days, x' the date after the
\* absolute and relative steps: on weekday w and never after x'
C11_BackwardWeekdaySearch ==
    (/\ pc = "applied"
     /\ delta.weekDay # NoWeekday
     /\ delta.weekDay[1].weekDay \in 0..6
     /\ delta.weekDay[1].n <= -1) =>
        NthOnOrBefore(heap[result], BeforeWeekday(delta, heap[x]),
                      delta.weekDay[1].weekDay, -delta.weekDay[1].n)

\* a backward search from a weekday later in the week than w, which went back
C11_Witness ==
    /\ pc = "applied"
    /\ delta.weekDay # NoWeekday
    /\ delta.weekDay[1].n = -2
    /\ DOMAIN delta.abs = {}
    /\ delta.days = 0
    /\ delta.months = 0
    /\ WeekdayOfDay(heap[x].dn) > delta.weekDay[1].weekDay
    /\ heap[result].dn = heap[x].dn - (WeekdayOfDay(heap[x].dn) - delta.weekDay[1].weekDay) - 7

----------------------------------------------------------------------------
\* yearDay and nonLeapYearDay: every day number, and the numbers just outside
\* the table

YearDayMargin == 2

\* the last entry of the table: the days of a 366-day year
LongYearDays == yearDayIndex[Len(yearDayIndex)]

YearDayNumbers == (1 - YearDayMargin)..(LongYearDays + YearDayMargin)

YearDayOptions ==
    { [yearDay |-> Num(k)] : k \in YearDayNumbers }
    \cup { [nonLeapYearDay |-> Num(k)] : k \in YearDayNumbers }

YearDayDays ==
    { c \in CalendarDays :
        \/ c[2] \in {1, 3, 7, 12} /\ c[3] \in {1, 31}
        \/ c[2] = 2 /\ c[3] \in {28, 29} }

InitYearDay == \E o \in YearDayOptions, c \in YearDayDays : Start(o, Afternoon(c))

NextYearDay == Construct \/ ApplyToDate

SpecYearDay == InitYearDay /\ [][NextYearDay]_vars

\* the number of days of year y
DaysInYear(y) == 337 + MonthLength(y, 2)

\* t is day k (January 1 = day 1) of the year of from, at the time of from
DayOfYearOf(t, from, k) ==
    /\ t.dn = Midnight(<<getFullYear(from), 1, 1>>).dn + k - 1
    /\ t.tod = from.tod

\* C12: {yearDay: k} applied to a date x of year Y, k a day number of Y
\* (1..365, or 1..366 in a leap year), gives the k-th day of Y at the time of
\* day of x; yearDay 345 is December 10 in 2020 and December 11 in a common year
C12_YearDaySetsDayOfYear ==
    (/\ pc = "applied"
     /\ DOMAIN opts = {"yearDay"}
     /\ Trunc(opts.yearDay) \in 1..DaysInYear(getFullYear(heap[x])))
        => /\ DayOfYearOf(heap[result], heap[x], Trunc(opts.yearDay))
           /\ opts.yearDay = Num(345) =>
                /\ getMonth(heap[result]) = 11
                /\ getDate(heap[result]) =
                     IF getFullYear(heap[x]) = 2020 THEN 10 ELSE 11

\* yearDay 345 applied in 2020 gave December 10
C12_Witness ==
    /\ pc = "applied"
    /\ DOMAIN opts = {"yearDay"}
    /\ opts.yearDay = Num(345)
    /\ heap[x] = Afternoon(<<2020, 1, 31>>)
    /\ heap[result] = Afternoon(<<2020, 12, 10>>)

\* the month (0-based) and the day of month of day k of a common year
CommonYearDay(k) == CivilFromDays(Midnight(<<2021, 1, 1>>).dn + k - 1)

\* C13: {nonLeapYearDay: k}, k in 1..365, applied to any date x gives, in the
\* year of x and at its time of day, the month and day of month that day k of
\* a common year has; the delta has no leapDays; k = 366 gives December 31
C13_NonLeapYearDayIgnoresLeapDays ==
    (/\ pc = "applied"
     /\ DOMAIN opts = {"nonLeapYearDay"}
     /\ Trunc(opts.nonLeapYearDay) \in 1..366) =>
        /\ delta.leapDays = 0
        /\ getFullYear(heap[result]) = getFullYear(heap[x])
        /\ heap[result].tod = heap[x].tod
        /\ getMonth(heap[result]) =
             IF opts.nonLeapYearDay = Num(366) THEN 11
             ELSE CommonYearDay(Trunc(opts.nonLeapYearDay)).month
        /\ getDate(heap[result]) =
             IF opts.nonLeapYearDay = Num(366) THEN 31
             ELSE CommonYearDay(Trunc(opts.nonLeapYearDay)).date

\* nonLeapYearDay 345 applied in the leap year 2020 gave December 11
C13_Witness ==
    /\ pc = "applied"
    /\ DOMAIN opts = {"nonLeapYearDay"}
    /\ opts.nonLeapYearDay = Num(345)
    /\ heap[x] = Afternoon(<<2020, 1, 31>>)
    /\ heap[result] = Afternoon(<<2020, 12, 11>>)

\* the yearDay or nonLeapYearDay of the options, which have one of them
YearDayGiven(o) ==
    IF "yearDay" \in DOMAIN o THEN o.yearDay ELSE o.nonLeapYearDay

\* C14: a yearDay or nonLeapYearDay that is an integer outside 1..366 makes
\* the constructor throw: no delta is built
C14_YearDayOutOfRangeThrows ==
    (/\ pc # "start"
     /\ DOMAIN opts \in {{"yearDay"}, {"nonLeapYearDay"}}
     /\ (YearDayGiven(opts) < Num(1) \/ YearDayGiven(opts) > Num(366)))
        => pc = "failed" /\ err = ErrYearDay /\ delta = NoDelta

\* yearDay 367 made the constructor throw
C14_Witness ==
    /\ pc = "failed"
    /\ DOMAIN opts = {"yearDay"}
    /\ opts.yearDay = Num(367)
    /\ err = ErrYearDay

----------------------------------------------------------------------------
\* The options of the constructor: absolute fields at and around the ends of
\* their ranges, fractional fields, dates given alone and in pairs with
\* other options, and deltas of days and time only

\* the range each absolute option documents
DocumentedRange ==
    [year        |-> [min |-> 1, max |-> 9999],
     month       |-> [min |-> 1, max |-> 12],
     day         |-> [min |-> 1, max |-> 31],
     hour        |-> [min |-> 0, max |-> 23],
     minute      |-> [min |-> 0, max |-> 59],
     second      |-> [min |-> 0, max |-> 59],
     millisecond |-> [min |-> 0, max |-> 999]]

\* values at, inside and outside the two ends of a range, whole and fractional
RangeProbes(r) ==
    { Num(r.min - 1), Num(r.min), Num(r.min + 1), Num(r.max - 1), Num(r.max),
      Num(r.max + 1), Num(-1), 0, Num(r.min) + Half, Num(r.max) + Half, -Half }

AbsoluteFieldOptions ==
    UNION { { [k \in {name} |-> v] : v \in RangeProbes(DocumentedRange[name]) } :
              name \in AbsKeys }

FractionalOptions ==
    { [years |-> Num(1) + Half], [months |-> Half], [years |-> Num(2), months |-> -Half],
      [years |-> Half, hour |-> 0], [months |-> Half, year |-> 0],
      [years |-> Half, day |-> Half], [months |-> Num(2) + Half, month |-> Num(13)],
      [years |-> Num(1), hour |-> Num(24)], [months |-> Num(1), minute |-> Half],
      [weeks |-> Half], [days |-> Half], [hours |-> Half], [minutes |-> Half],
      [seconds |-> Half], [milliseconds |-> Half],
      [years |-> Num(1) + Half, weekDay |-> [kind |-> "pair", day |-> [str |-> "XX"], n |-> Num(1)]],
      [years |-> Num(1) + Half, weekDay |-> [kind |-> "bare", day |-> [num |-> Num(7)]]],
      [years |-> Num(1) + Half, weekDay |-> [kind |-> "bare", day |-> [str |-> "FR"]]],
      [months |-> Half, weekDay |-> [kind |-> "pair", day |-> [str |-> "XX"], n |-> Num(1)],
       yearDay |-> Num(400)],
      [years |-> Num(1) + Half, yearDay |-> Num(400)], [years |-> Num(1) + Half, yearDay |-> Num(60)],
      [months |-> Half, nonLeapYearDay |-> Num(-1)], [months |-> Half, nonLeapYearDay |-> Num(100)],
      [years |-> Half, yearDay |-> Num(400), hour |-> 0],
      [weeks |-> Half, days |-> Half, hours |-> -Half, minutes |-> Num(1) + Half,
       seconds |-> Half, milliseconds |-> -Half] }

\* options given next to the dates, valid and invalid on their own
ExtraOptions ==
    { NoOptions, [years |-> Num(3)], [years |-> Num(1) + Half], [year |-> 0],
      [leapDays |-> Num(2), hour |-> Num(5)], [months |-> Num(2), day |-> Num(31)],
      [weekDay |-> [kind |-> "pair", day |-> [str |-> "XX"], n |-> Num(1)]],
      [weekDay |-> [kind |-> "pair", day |-> [str |-> "FR"], n |-> Num(2)]],
      [yearDay |-> Num(400)], [nonLeapYearDay |-> Num(100)] }

PairedInstants ==
    { Midnight(<<2020, 1, 1>>), Afternoon(<<2020, 2, 29>>), LastMs(<<2021, 12, 31>>) }

DatedOptions ==
    { Merge(e, [date1 |-> a]) : e \in ExtraOptions, a \in PairedInstants }
    \cup { Merge(e, [date2 |-> b]) : e \in ExtraOptions, b \in PairedInstants }
    \cup { Merge(e, [date1 |-> a, date2 |-> b]) :
             e \in ExtraOptions, a \in PairedInstants, b \in PairedInstants }

\* deltas without years and months, of integers
DayTimeOptions ==
    { [days |-> Num(15)], [days |-> Num(5), milliseconds |-> Num(3)],
      [days |-> Num(3), minutes |-> Num(49), seconds |-> Num(4), milliseconds |-> Num(3)],
      [days |-> Num(-5), milliseconds |-> Num(-3)], [days |-> Num(3), milliseconds |-> Num(3)] }
    \cup { [days |-> d, leapDays |-> l, hours |-> h, minutes |-> mi, seconds |-> s,
            milliseconds |-> ms] :
             d  \in {0, Num(15), Num(-3)},
             l  \in {0, Num(1), Num(-1)},
             h  \in {0, Num(25)},
             mi \in {0, Num(-61)},
             s  \in {0, Num(59)},
             ms \in {0, Num(1500)} }

FieldsOptions ==
    AbsoluteFieldOptions \cup FractionalOptions \cup ExtraOptions \cup DatedOptions
    \cup DayTimeOptions

ReferenceInstants ==
    { Midnight(<<2019, 12, 31>>), Afternoon(<<2020, 2, 29>>), LastMs(<<2020, 3, 1>>),
      Afternoon(<<2021, 1, 31>>) }

InitFields == \E o \in FieldsOptions, t \in ReferenceInstants : Start(o, t)

NextFields == Construct \/ ApplyToDate \/ ToSeconds

SpecFields == InitFields /\ [][NextFields]_vars

\* the options are one absolute field
OneAbsoluteField(o) == Cardinality(DOMAIN o) = 1 /\ DOMAIN o \subseteq AbsKeys

\* the name and the value of the one field
FieldName(o) == CHOOSE k \in DOMAIN o : TRUE

FieldValue(o) == o[FieldName(o)]

\* v is an integer inside the documented range r
InDocumentedRange(v, r) == IsInteger(v) /\ Num(r.min) <= v /\ v <= Num(r.max)

\* C15: the constructor accepts an absolute field exactly when it is an integer
\* inside its documented range (hour, minute, second and millisecond from 0),
\* and throws otherwise; a fractional value throws the float error, in or out
\* of the range
C15_AbsoluteRanges ==
    (pc # "start" /\ OneAbsoluteField(opts)) =>
        /\ (pc # "failed") <=>
              InDocumentedRange(FieldValue(opts), DocumentedRange[FieldName(opts)])
        /\ ~IsInteger(FieldValue(opts)) => err = ErrFloatAbsolute

\* hour 23 was accepted and set; a fractional value above the range threw the
\* float error
C15_Witness ==
    \/ /\ pc = "applied"
       /\ opts = [hour |-> Num(23)]
       /\ getHours(heap[result]) = 23
    \/ /\ pc = "failed"
       /\ opts = [hour |-> Num(23) + Half]
       /\ err = ErrFloatAbsolute

\* C16: one absolute field of 0, no other option: the constructor throws
C16_ZeroAbsoluteThrows ==
    (pc # "start" /\ OneAbsoluteField(opts) /\ FieldValue(opts) = 0) =>
        pc = "failed" /\ err = ErrRange /\ delta = NoDelta

\* millisecond 0 threw
C16_Witness ==
    /\ pc = "failed"
    /\ opts = [millisecond |-> 0]
    /\ err = ErrRange

\* exactly one of date1 and date2 is given
Unpaired(o) == ("date1" \in DOMAIN o) # ("date2" \in DOMAIN o)

\* C17: the constructor throws the both-dates error when exactly one of date1
\* and date2 is given, whatever the other options, and never otherwise
C17_UnpairedDateThrows ==
    pc # "start" =>
        /\ Unpaired(opts) => pc = "failed"
        /\ (err = ErrBothDates) <=> Unpaired(opts)

\* date2 given alone, next to a year that is out of range
C17_Witness ==
    /\ pc = "failed"
    /\ DOMAIN opts = {"date2", "year"}
    /\ opts.year = 0
    /\ err = ErrBothDates

\* the relative fields of the options that may be fractions
FractionAllowed == {"weeks", "days", "hours", "minutes", "seconds", "milliseconds"}

\* the options are without dates and their years or months are a fraction
FractionalYearsOrMonths(o) ==
    /\ DOMAIN o \cap {"date1", "date2"} = {}
    /\ ~IsInteger(Opt(o, "years", 0)) \/ ~IsInteger(Opt(o, "months", 0))

\* the error of the weekDay or of the year day of the options, "" if none:
\* the constructor throws it before validateInput() runs
ErrorBeforeValidation(o) ==
    IF "weekDay" \in DOMAIN o /\ WeekdayOption(o.weekDay).err # ""
    THEN WeekdayOption(o.weekDay).err
    ELSE ResolveYearDay(o, FieldDelta(o)).err

\* C18 as stated: on the field path a fractional years or months throws the
\* float error of years and months, whatever else the options hold; fractions
\* in the weeks, days, hours, minutes, seconds and milliseconds are accepted
C18_FloatErrorOnFieldPath ==
    pc # "start" =>
        /\ FractionalYearsOrMonths(opts) => pc = "failed" /\ err = ErrFloatRelative
        /\ (DOMAIN opts \subseteq FractionAllowed) => pc # "failed" /\ err = ""

\* C18, amended: on the field path a fractional years or months always throws:
\* the error of an invalid weekDay, else the error of an invalid yearDay or
\* nonLeapYearDay, else the float error of years and months, also when an
\* absolute field is invalid; fractions in the weeks, days, hours, minutes,
\* seconds and milliseconds are accepted
C18_FractionalYearsMonths ==
    pc # "start" =>
        /\ FractionalYearsOrMonths(opts) =>
              /\ pc = "failed"
              /\ err = IF ErrorBeforeValidation(opts) # ""
                       THEN ErrorBeforeValidation(opts) ELSE ErrFloatRelative
        /\ (DOMAIN opts \subseteq FractionAllowed) => pc # "failed" /\ err = ""

\* fractional years threw their error although the hour was out of range too,
\* or next to a valid weekDay, or gave way to the error of an invalid yearDay,
\* or fractions in all the smaller fields were accepted
C18_Witness ==
    \/ /\ pc = "failed"
       /\ opts = [years |-> Half, hour |-> 0]
       /\ err = ErrFloatRelative
    \/ /\ pc = "failed"
       /\ DOMAIN opts = {"years", "weekDay"}
       /\ ~IsInteger(opts.years)
       /\ ErrorBeforeValidation(opts) = ""
       /\ err = ErrFloatRelative
    \/ /\ pc = "failed"
       /\ DOMAIN opts = {"years", "yearDay"}
       /\ ~IsInteger(opts.years)
       /\ err = ErrYearDay
    \/ /\ pc = "built"
       /\ DOMAIN opts = FractionAllowed
       /\ \A k \in DOMAIN opts : ~IsInteger(opts[k])

\* the two dates of the options alone
DatesOf(o) == [date1 |-> o.date1, date2 |-> o.date2]

\* C19: with date1 and date2 the constructor never throws and the delta is,
\* field by field, the one the two dates give alone, whatever the other options
C19_DatesIgnoreOtherOptions ==
    (pc # "start" /\ {"date1", "date2"} \subseteq DOMAIN opts) =>
        /\ pc # "failed"
        /\ err = ""
        /\ Built(delta) = RelativeDelta(DatesOf(opts))

\* two different dates given with years: 1.5
C19_Witness ==
    /\ pc = "built"
    /\ DOMAIN opts = {"date1", "date2", "years"}
    /\ opts.years = Num(1) + Half
    /\ opts.date1 # opts.date2
    /\ delta.years = Num(-1)

\* the hours, minutes, seconds and milliseconds of a delta in 1/(1000 * Q) second
TimeTicks(d) ==
    (d.hours * 3600 + d.minutes * 60 + d.seconds) * 1000 + d.milliseconds

\* the number nearest to days * 86400 + ms / 1000, for whole days and ms
SecondsOf(days, ms) ==
    FloatDiv(FloatAdd(FloatMul(FloatOfInt(days), 86400, 1000), FloatOfInt(ms)), 1000, 1)

\* C20: with years = 0, months = 0 and integer fields toSeconds(ref) is
\* (days + leapDays) * 86400 + hours * 3600 + minutes * 60 + seconds
\* + milliseconds / 1000 for every ref; {days: 15} gives 1296000 = 15 * 86400
C20_ToSecondsWithoutYearsMonths ==
    (/\ pc = "converted"
     /\ delta.years = 0 /\ delta.months = 0
     /\ \A f \in {"days", "leapDays", "hours", "minutes", "seconds", "milliseconds"} :
            IsInteger(delta[f])) =>
        /\ out = SecondsOf((delta.days + delta.leapDays) \div Q, TimeTicks(delta) \div Q)
        /\ opts = [days |-> Num(15)] => out = FloatOfInt(1296000)

\* 15 days, one leap day and 1500 ms, from a reference in a leap year
C20_Witness ==
    /\ pc = "converted"
    /\ opts = [days |-> Num(15), leapDays |-> Num(1), hours |-> 0, minutes |-> 0,
               seconds |-> 0, milliseconds |-> Num(1500)]
    /\ heap[x] = Afternoon(<<2020, 2, 29>>)
    /\ out = SecondsOf(16, 1500)

----------------------------------------------------------------------------
\* Deltas of years and months, applied to and measured from the same date

MaxYears == 1

YearMonthOptions ==
    { [years |-> Num(y), months |-> Num(m)] :
        y \in (-MaxYears)..MaxYears, m \in (-MaxMonths)..MaxMonths }

InitSpan ==
    \/ \E o \in YearMonthOptions, c \in CalendarDays : Start(o, Afternoon(c))
    \/ \E o \in YearMonthOptions, c \in EarlyDays : Start(o, EarlyAfternoon(c))

NextSpan == Construct \/ ApplyToDate \/ ToSeconds

SpecSpan == InitSpan /\ [][NextSpan]_vars

\* the whole calendar days from a to b
CalendarDaysBetween(a, b) == b.dn - a.dn

\* C21: for a delta of years and months only, toDays(ref) is the whole number
\* of calendar days from ref to applyToDate(ref), for every day of the month
\* of ref: {months: 1} from January 31 counts the days to the end of February
C21_ToDaysFollowsApplyToDate ==
    pc = "converted" =>
        \A to \in { ApplyDelta(delta, heap[x]) } :
            Days(out) = FloatOfInt(CalendarDaysBetween(heap[x], to))

\* {months: 1} from the 15th of January 2020 is 31 days, the days to February 15
C21_Witness ==
    /\ pc = "converted"
    /\ opts = [years |-> 0, months |-> Num(1)]
    /\ heap[x] = Afternoon(<<2020, 1, 15>>)
    /\ Days(out) = FloatOfInt(31)
    /\ ApplyDelta(delta, heap[x]) = Afternoon(<<2020, 2, 15>>)

\* t is on the first day of its month
FirstOfMonth(t) == getDate(t) = 1

\* C22: {months: 1}.toDays(the 1st of month M of year Y) is the number of days
\* of month M of Y, and {months: 12}.toDays(January 1 of Y) the number of days
\* of year Y
C22_ToDaysMonthAndYearLength ==
    (pc = "converted" /\ FirstOfMonth(heap[x]) /\ opts.years = 0) =>
        /\ opts.months = Num(1) =>
              Days(out) = FloatOfInt(MonthLength(getFullYear(heap[x]), getMonth(heap[x]) + 1))
        /\ (opts.months = Num(12) /\ getMonth(heap[x]) = 0) =>
              Days(out) = FloatOfInt(DaysInYear(getFullYear(heap[x])))

\* one month from February 1 2020 is 29 days, twelve from January 1 2020 are 366
C22_Witness ==
    /\ pc = "converted"
    /\ opts.years = 0
    /\ \/ /\ opts.months = Num(1)
          /\ heap[x] = Afternoon(<<2020, 2, 1>>)
          /\ Days(out) = FloatOfInt(29)
       \/ /\ opts.months = Num(12)
          /\ heap[x] = Afternoon(<<2020, 1, 1>>)
          /\ Days(out) = FloatOfInt(366)

\* day d of month m of year y of the Gregorian calendar, for every year, at
\* the time of day tod
CalendarDate(y, m, d, tod) == [dn |-> DaysFromCivil(y, m, d), tod |-> tod]

\* C28: a delta of years = k only keeps the month, the day and the time of day
\* when that day exists in year Y + k, and takes February 29 to March 1 of a
\* common year
C28_YearsRollOver ==
    (pc = "applied" /\ opts.months = 0) =>
        heap[result] =
            IF getDate(heap[x]) <= MonthLength(getFullYear(heap[x]) + Trunc(opts.years),
                                               getMonth(heap[x]) + 1)
            THEN CalendarDate(getFullYear(heap[x]) + Trunc(opts.years), getMonth(heap[x]) + 1,
                              getDate(heap[x]), heap[x].tod)
            ELSE CalendarDate(getFullYear(heap[x]) + Trunc(opts.years), 3, 1, heap[x].tod)

\* February 29 2020 plus one year is March 1 2021
C28_Witness ==
    /\ pc = "applied"
    /\ opts = [years |-> Num(1), months |-> 0]
    /\ heap[x] = Afternoon(<<2020, 2, 29>>)
    /\ heap[result] = Afternoon(<<2021, 3, 1>>)

----------------------------------------------------------------------------
\* normalized(): deltas with fractions, the documented examples with the
\* fractions in quarters, and deltas with absolute fields, leapDays and weekDay

\* 0.25, when Q holds quarters
Quarter == Q \div 4

QuarterGrid == Q % 4 = 0

NormalizedExamples ==
    { [weeks |-> Num(2) + Half, days |-> Num(1) + Half, hours |-> Num(2) + Quarter],
      [weeks |-> -(Num(8) + Half), days |-> Num(1) + Half, hours |-> -(Num(62) + Quarter)],
      [seconds |-> -Half], [days |-> -Half, milliseconds |-> Half],
      [days |-> Num(1), day |-> Num(15)] }

NormalizedDays == { <<2020, 1, 31>>, <<2020, 2, 29>>, <<2021, 3, 1>>, <<2019, 12, 31>> }

\* options of integers, with weeks, that overflow their units in both directions
WholeOptions ==
    { [years |-> y, months |-> mo, weeks |-> w, days |-> d, hours |-> h,
       minutes |-> mi, seconds |-> s, milliseconds |-> ms] :
        y  \in {0, Num(-2)},
        mo \in {0, Num(12), Num(-25)},
        w  \in {0, Num(2), Num(-1)},
        d  \in {0, Num(-3)},
        h  \in {0, Num(24), Num(-49)},
        mi \in {0, Num(-61), Num(119)},
        s  \in {0, Num(-3600), Num(59)},
        ms \in {0, Num(1000), Num(-123456)} }

InitNormalized ==
    \/ \E o \in ApplyOptions \cup NormalizedExamples, c \in NormalizedDays :
           Start(o, Afternoon(c))
    \/ \E o \in WholeOptions : Start(o, Afternoon(<<2020, 2, 29>>))
    \/ \E o \in RelativeOptions : Start(o, Midnight(<<2020, 1, 1>>))

NextNormalized == Construct \/ Normalized

SpecNormalized == InitNormalized /\ [][NextNormalized]_vars

\* C23: normalized() of a normalized delta is that delta, field by field
C23_NormalizedIdempotent ==
    pc = "normalized" => normalized(norm) = norm

\* a delta with fractions in its days, hours and minutes was normalized into
\* another delta
C23_Witness ==
    /\ pc = "normalized"
    /\ ~IsInteger(delta.days) /\ ~IsInteger(delta.hours) /\ ~IsInteger(delta.minutes)
    /\ norm # delta
    /\ norm.days # 0 /\ norm.seconds # 0

TimeFields == {"days", "hours", "minutes", "seconds", "milliseconds"}

\* the part of the days of d below one day, with the hours, minutes, seconds
\* and milliseconds, in 1/Q millisecond
BelowDayTicks(d) == (d.days - Num(Trunc(d.days))) * 86400000 + TimeTicks(d)

\* C24: normalized() leaves the receiver as it was and returns a delta whose
\* days, hours, minutes, seconds and milliseconds are integers that carry the
\* fractions down: together they are the quantity of the receiver, rounded to
\* the millisecond, and the years and months are the receiver's;
\* {weeks: 2.5, days: 1.5, hours: 2.25} gives days 19, hours 2, minutes 15 and
\* {weeks: -8.5, days: 1.5, hours: -62.25} days -60, hours -14, minutes -15
C24_NormalizedCarriesFractionsDown ==
    /\ [][pc' = "normalized" => delta' = delta]_vars
    /\ [](pc = "normalized" =>
            /\ \A f \in TimeFields : IsInteger(norm[f])
            /\ norm.years = delta.years /\ norm.months = delta.months
            /\ ((norm.days \div Q) - Trunc(delta.days)) * 86400000
                  + TimeTicks(norm) \div Q = Round(BelowDayTicks(delta))
            /\ (QuarterGrid /\ opts = [weeks |-> Num(2) + Half, days |-> Num(1) + Half,
                                      hours |-> Num(2) + Quarter]) =>
                 /\ norm.days = Num(19) /\ norm.hours = Num(2) /\ norm.minutes = Num(15)
                 /\ norm.seconds = 0 /\ norm.milliseconds = 0
            /\ (QuarterGrid /\ opts = [weeks |-> -(Num(8) + Half), days |-> Num(1) + Half,
                                      hours |-> -(Num(62) + Quarter)]) =>
                 /\ norm.days = Num(-60) /\ norm.hours = Num(-14) /\ norm.minutes = Num(-15)
                 /\ norm.seconds = 0 /\ norm.milliseconds = 0)

\* the first example was normalized into 19 days, 2 hours and 15 minutes
C24_Witness ==
    /\ pc = "normalized"
    /\ DOMAIN opts = {"weeks", "days", "hours"}
    /\ opts.weeks = Num(2) + Half
    /\ delta.days = Num(19) /\ delta.hours = Num(2) + Quarter
    /\ norm.days = Num(19) /\ norm.hours = Num(2) /\ norm.minutes = Num(15)

\* the relative fields of d, all but leapDays, are integers
IntegerRelative(d) ==
    \A f \in TimeFields \cup {"years", "months"} : IsInteger(d[f])

\* C30: for a delta d of integer relative fields, with or without absolute
\* fields, leapDays and weekDay, normalized() applied to x gives what d applied
\* to x gives
C30_NormalizedAppliesAlike ==
    (pc = "normalized" /\ IntegerRelative(delta)) =>
        \A a \in { ApplyDelta(delta, heap[x]) } :
            ApplyDelta(norm, heap[x]) = a

\* a delta of relative fields that overflowed was normalized and both move the
\* date alike
C30_Witness ==
    /\ pc = "normalized"
    /\ DOMAIN opts = {"years", "months", "days", "hours", "leapDays"}
    /\ opts.months = Num(-13) /\ opts.hours = Num(25) /\ opts.leapDays = 0
    /\ ApplyDelta(norm, heap[x]) = ApplyDelta(delta, heap[x])
    /\ ApplyDelta(norm, heap[x]) # heap[x]

----------------------------------------------------------------------------
\* The difference of two instants, field by field

\* the earlier and the later of the two dates of the options, and the sign
EarlierOf(o) == IF DateLeq(o.date1, o.date2) THEN o.date1 ELSE o.date2

LaterOf(o) == IF DateLeq(o.date1, o.date2) THEN o.date2 ELSE o.date1

SignOf(o) == IF DateLeq(o.date1, o.date2) THEN -1 ELSE 1

\* the day number of the day of month `date` in the month that is `count`
\* months after January of year 0, clamped to the length of that month
ClampedDayNumber(count, date) ==
    Midnight(<<count \div 12, (count % 12) + 1,
               Min(date, MonthLength(count \div 12, (count % 12) + 1))>>).dn

\* the earlier date advanced by the years and months of d
AdvancedEarlier(e, d, sign) ==
    ClampedDayNumber(12 * getFullYear(e) + getMonth(e)
                     + sign * (12 * Trunc(d.years) + Trunc(d.months)), getDate(e))

\* C25: days * sign of a difference is the whole-day count from the earlier
\* date, advanced by the years and months with its day clamped to the target
\* month, to the later date; years, months and days are all >= 0 when
\* date1 > date2 and all <= 0 when date1 <= date2
C25_DiffDaysFromClampedDate ==
    (pc = "built" /\ "date1" \in DOMAIN opts) =>
        /\ Trunc(delta.days) * SignOf(opts) =
             LaterOf(opts).dn - AdvancedEarlier(EarlierOf(opts), delta, SignOf(opts))
        /\ \A f \in {"years", "months", "days"} : delta[f] * SignOf(opts) >= 0

\* January 31 to March 1 2021: one month, and one day from the clamped
\* February 28
C25_Witness ==
    /\ pc = "built"
    /\ "date1" \in DOMAIN opts
    /\ opts.date1 = Midnight(<<2021, 3, 1>>)
    /\ opts.date2 = Midnight(<<2020, 1, 31>>)
    /\ delta.years = Num(1) /\ delta.months = Num(1) /\ delta.days = Num(1)

\* the day numbers of the February 29ths among a set of day numbers
LeapDaysIn(dns) ==
    { dn \in dns : CivilFromDays(dn).month = 1 /\ CivilFromDays(dn).date = 29 }

\* C26: |leapDays| of a difference is the number of February 29ths between the
\* earlier and the later instant (a February 29 that one of the two instants
\* lies on may or may not be counted), leapDays has the sign of the
\* difference, and it is 0 when the two instants are on the same calendar day
C26_DiffLeapDays ==
    (pc = "built" /\ "date1" \in DOMAIN opts) =>
        /\ delta.leapDays * SignOf(opts) >= 0
        /\ Trunc(delta.leapDays) * SignOf(opts) >=
             Cardinality(LeapDaysIn((EarlierOf(opts).dn + 1)..(LaterOf(opts).dn - 1)))
        /\ Trunc(delta.leapDays) * SignOf(opts) <=
             Cardinality(LeapDaysIn(EarlierOf(opts).dn..LaterOf(opts).dn))
        /\ opts.date1.dn = opts.date2.dn => delta.leapDays = 0

\* from January 31 2020 to March 31 2021: one February 29 between
C26_Witness ==
    /\ pc = "built"
    /\ "date1" \in DOMAIN opts
    /\ opts.date1 = Midnight(<<2020, 1, 31>>)
    /\ opts.date2 = Midnight(<<2021, 3, 31>>)
    /\ delta.leapDays = Num(-1)

\* later - earlier of one time field, times sign
FieldDifference(get(_), o) ==
    Num(applySign(get(LaterOf(o)) - get(EarlierOf(o)), SignOf(o)))

\* C27: a difference has no absolute field and no weekDay, |months| in 0..11,
\* years of the sign of the difference or 0, and hours, minutes, seconds and
\* milliseconds that are the differences of the fields of the later and the
\* earlier date times the sign, without a borrow from the days
C27_DiffIsPureRelative ==
    (pc = "built" /\ "date1" \in DOMAIN opts) =>
        /\ DOMAIN delta.abs = {}
        /\ delta.weekDay = NoWeekday
        /\ Abs(delta.months) \in 0..Num(11)
        /\ delta.years * SignOf(opts) >= 0
        /\ delta.hours = FieldDifference(getHours, opts)
        /\ delta.minutes = FieldDifference(getMinutes, opts)
        /\ delta.seconds = FieldDifference(getSeconds, opts)
        /\ delta.milliseconds = FieldDifference(getMilliseconds, opts)

\* the earlier date is later in its day than the later date in its: the hours
\* have the other sign than the days
C27_Witness ==
    /\ pc = "built"
    /\ "date1" \in DOMAIN opts
    /\ opts.date1 = Midnight(<<2021, 3, 31>>)
    /\ opts.date2 = Afternoon(<<2019, 12, 31>>)
    /\ delta.years = Num(1) /\ delta.months = Num(3) /\ delta.days = 0
    /\ delta.hours = Num(-13) /\ delta.milliseconds = Num(-250)


\* the options are those of the field path and all their values integers
WholeFieldOptions(o) ==
    /\ DOMAIN o \subseteq TimeFields \cup AbsKeys \cup {"years", "months", "weeks", "leapDays"}
    /\ \A k \in DOMAIN o : IsInteger(o[k])

\* the value of field f of the delta minus the value the options gave it
FieldGain(d, o, f) ==
    Trunc(d[f]) - Trunc(Opt(o, f, 0)) - (IF f = "days" THEN 7 * Trunc(Opt(o, "weeks", 0)) ELSE 0)

\* C29: on the field path with integer options the constructed delta holds the
\* quantity of the options: milliseconds + 1000 seconds + 60000 minutes
\* + 3600000 hours + 86400000 days (weeks * 7 among the days) is the same, and
\* so is 12 years + months; another fix() changes no field
C29_FixConservesQuantity ==
    (pc = "built" /\ WholeFieldOptions(opts)) =>
        /\ FieldGain(delta, opts, "milliseconds")
             + 1000 * FieldGain(delta, opts, "seconds")
             + 60000 * FieldGain(delta, opts, "minutes")
             + 3600000 * FieldGain(delta, opts, "hours")
             + 86400000 * FieldGain(delta, opts, "days") = 0
        /\ 12 * FieldGain(delta, opts, "years") + FieldGain(delta, opts, "months") = 0
        /\ fix(delta) = delta

\* every unit overflowed and carried: the fields changed, the quantity did not
C29_Witness ==
    /\ pc = "built"
    /\ WholeFieldOptions(opts)
    /\ "weeks" \in DOMAIN opts
    /\ opts.weeks = Num(2) /\ opts.hours = Num(-49) /\ opts.months = Num(-25)
    /\ opts.milliseconds = Num(-123456) /\ opts.seconds = Num(59) /\ opts.minutes = Num(119)
    /\ opts.days = 0 /\ opts.years = 0
    /\ delta.years = Num(-2) /\ delta.months = Num(-1)
    /\ delta.days = Num(12)

====
